---- MODULE Spec2Model ----
(***************************************************************************)
(* Flow Protocol Engine of the WhatsApp Flow data endpoint:                *)
(*   - src/services/flowProcessor.js  (flow action state machine, screen   *)
(*     data provider, encrypted request processing)                        *)
(*   - src/routes/flows.js            (POST /data-endpoint, lines 287-471) *)
(*   - src/utils/encryption.js        (transport codec, signature check)   *)
(* The document stores (FlowSession, FlowResponse, FlowData, Business) are  *)
(* the state; one action handles one HTTP request from start to end.       *)
(***************************************************************************)
EXTENDS Integers, Sequences, FiniteSets, TLC

VARIABLES
    businesses,   \* Business collection, in natural (insertion) order
    sessions,     \* FlowSession collection: session id -> document
    responses,    \* FlowResponse collection, in insertion order
    flowData,     \* FlowData collection, in natural (insertion) order
    now,          \* wall clock read by new Date(), in hours
    uuidCount,    \* number of identifiers uuidv4() has handed out
    nreq,         \* number of requests the data endpoint has answered
    last,         \* the most recent processFlowAction call and its outcome
    attempts,     \* the decryption attempts of the most recent request's resolver loop
    http,         \* the HTTP response sent for the most recent request
    request,      \* the most recent request received by the data endpoint
    codec,        \* a payload, key and IV taken through the transport codec
    fetching,     \* the request waiting for the external data source, and its outcome
    procs,        \* the requests being handled concurrently, each with its position
    keyCount,     \* number of key pairs generateKeyPair() has produced
    platform      \* the public key the platform has registered for each tenant

vars == <<businesses, sessions, responses, flowData, now, uuidCount, nreq, last, attempts, http,
          request, codec, fetching, procs, keyCount, platform>>

(***************************************************************************)
(* Bounds                                                                  *)
(***************************************************************************)
MaxRequests == 3
MaxEncRequests == 2
MaxIvLen == 3
MaxScreenRequests == 3
MaxTtlRequests == 2
MaxTicks == 4

(***************************************************************************)
(* Values                                                                  *)
(***************************************************************************)
\* A request field that is missing (undefined) or the empty string: both are
\* falsy in every test the code makes on it.
Absent == ""

NoPayload == [present |-> FALSE, entries |-> <<>>]

Obj(entries) == [present |-> TRUE, entries |-> entries]

EmptyObject == [k \in {} |-> TRUE]

SessionTtlHours == 24

\* uuidv4(): the n-th identifier it generates; identifiers never repeat.
Uuid(n) == "u" \o ToString(n)

(***************************************************************************)
(* JSON.stringify                                                          *)
(***************************************************************************)
JSONstringifyString(s) == "\"" \o s \o "\""

RECURSIVE JSONjoinEntries(_)
JSONjoinEntries(es) ==
    IF es = <<>> THEN ""
    ELSE JSONstringifyString(es[1][1]) \o ":" \o JSONstringifyString(es[1][2])
         \o (IF Len(es) > 1 THEN "," \o JSONjoinEntries(Tail(es)) ELSE "")

\* JSON.stringify(payload || {}) and JSON.stringify(responses)
JSONstringifyObject(p) ==
    "{" \o JSONjoinEntries(IF p.present THEN p.entries ELSE <<>>) \o "}"

RECURSIVE JSONjoinOptions(_)
JSONjoinOptions(l) ==
    IF l = <<>> THEN ""
    ELSE "{\"id\":" \o JSONstringifyString(l[1].id) \o ",\"title\":"
         \o JSONstringifyString(l[1].title) \o "}"
         \o (IF Len(l) > 1 THEN "," \o JSONjoinOptions(Tail(l)) ELSE "")

\* JSON.stringify(dataSource)
JSONstringifyOptions(l) == "[" \o JSONjoinOptions(l) \o "]"

(***************************************************************************)
(* Screen Data Provider                                                    *)
(***************************************************************************)
\* Documents the external data source can answer with.
ApiResults ==
    { [kind |-> "array", items |-> << [id |-> "US", title |-> "United States"] >>],
      [kind |-> "object", hasData |-> TRUE,
       items |-> << [value |-> "UK", label |-> "United Kingdom"], [name |-> "France"] >>],
      [kind |-> "object", hasData |-> FALSE, items |-> <<>>] }

\* Outcomes of fetch(apiConfig.endpoint, ...).
FetchOutcomes ==
    { [kind |-> "ok", data |-> d] : d \in ApiResults }
        \cup { [kind |-> "notok"], [kind |-> "throw"] }

Field(item, k) == IF k \in DOMAIN item THEN item[k] ELSE Absent

OptionId(item, index) ==
    IF Field(item, "id") # Absent THEN item.id
    ELSE IF Field(item, "value") # Absent THEN item.value
    ELSE "option_" \o ToString(index)

OptionTitle(item) ==
    IF Field(item, "title") # Absent THEN item.title
    ELSE IF Field(item, "label") # Absent THEN item.label
    ELSE IF Field(item, "name") # Absent THEN item.name
    ELSE IF Field(item, "text") # Absent THEN item.text
    ELSE "[object Object]"

\* Default transformation; array indexes start at 0.
transformApiDataToDropdownOptions(apiData) ==
    IF apiData.kind = "array" \/ (apiData.kind = "object" /\ apiData.hasData)
    THEN [i \in 1..Len(apiData.items) |->
            [id |-> OptionId(apiData.items[i], i - 1), title |-> OptionTitle(apiData.items[i])]]
    ELSE <<>>

\* The default transformation throws on a document it cannot read a property
\* of: the JSON document null (apiData.data is a TypeError).
transformThrows(apiData) == apiData.kind = "null"

\* fetch answered OK with the JSON document null.
Untransformable == [kind |-> "ok", data |-> [kind |-> "null"]]

OptionLists == { transformApiDataToDropdownOptions(d) : d \in ApiResults }

\* JSON.parse(cachedData.field_value || "[]")
JSONparseOptions(s) ==
    IF s = Absent THEN <<>>
    ELSE CHOOSE l \in OptionLists : JSONstringifyOptions(l) = s

\* FlowData.findOne({screen_id, field_name}): index of the first match, 0 if none.
FindOneFlowData(docs, screenId, fieldName) ==
    LET hits == { i \in 1..Len(docs) :
                    docs[i].screen_id = screenId /\ docs[i].field_name = fieldName }
    IN IF hits = {} THEN 0 ELSE CHOOSE i \in hits : \A j \in hits : i <= j

\* FlowData.findOneAndUpdate({screen_id, field_name: "data_source"},
\*                           {field_value, updated_at}, {upsert: true})
UpsertDataSource(docs, screenId, value, t) ==
    LET i == FindOneFlowData(docs, screenId, "data_source")
    IN IF i # 0
       THEN [docs EXCEPT ![i].field_value = value, ![i].updated_at = t]
       ELSE Append(docs, [business_id |-> Absent, flow_id |-> Absent,
                          screen_id |-> screenId, field_name |-> "data_source",
                          field_value |-> value, api_config |-> Absent,
                          created_at |-> t, updated_at |-> t])

CachedDataSource(docs, screenId) ==
    LET c == FindOneFlowData(docs, screenId, "data_source")
    IN IF c # 0 THEN JSONparseOptions(docs[c].field_value) ELSE <<>>

\* Mutant: a failed refresh empties the cache entry of the screen.
getScreenData_clearOnFail(docs, screenId, fetched, t) ==
    LET cfg == FindOneFlowData(docs, screenId, "api_config")
        refresh == cfg # 0 /\ docs[cfg].api_config # Absent
        fresh == transformApiDataToDropdownOptions(fetched.data)
        ok == refresh /\ fetched.kind = "ok" /\ ~transformThrows(fetched.data)
        dataSource == IF ok THEN fresh
                      ELSE IF refresh THEN <<>> ELSE CachedDataSource(docs, screenId)
    IN [flowData |-> IF ok THEN UpsertDataSource(docs, screenId, JSONstringifyOptions(fresh), t)
                     ELSE IF refresh THEN UpsertDataSource(docs, screenId, "[]", t)
                     ELSE docs,
        screenData |-> IF Len(dataSource) > 0 THEN [data_source |-> dataSource]
                       ELSE EmptyObject]

\* getScreenData(screenId): the cache after the call and the data returned.
getScreenData(docs, screenId, fetched, t) ==
    LET cfg == FindOneFlowData(docs, screenId, "api_config")
        refresh == cfg # 0 /\ docs[cfg].api_config # Absent
        fresh == transformApiDataToDropdownOptions(fetched.data)
        ok == refresh /\ fetched.kind = "ok" /\ ~transformThrows(fetched.data)
        dataSource == IF ok THEN fresh ELSE CachedDataSource(docs, screenId)
    IN [flowData |-> IF ok THEN UpsertDataSource(docs, screenId, JSONstringifyOptions(fresh), t)
                     ELSE docs,
        screenData |-> IF Len(dataSource) > 0 THEN [data_source |-> dataSource]
                       ELSE EmptyObject]

(***************************************************************************)
(* Flow Session Store and Flow Answer Store                                *)
(***************************************************************************)
\* Mutant: the update without the upsert option.
createOrUpdateSession_noUpsert(ss, sessionId, flow_token, current_screen, session_data, t) ==
    IF sessionId \in DOMAIN ss
    THEN [ss EXCEPT ![sessionId].flow_id = IF flow_token # Absent THEN flow_token ELSE "default_flow",
                    ![sessionId].current_screen = current_screen,
                    ![sessionId].session_data = session_data,
                    ![sessionId].expires_at = t + SessionTtlHours]
    ELSE ss

\* FlowSession.findOneAndUpdate({id}, sessionData, {upsert: true, new: true})
createOrUpdateSession(ss, sessionId, flow_token, current_screen, session_data, t) ==
    LET flowId == IF flow_token # Absent THEN flow_token ELSE "default_flow"
    IN IF sessionId \in DOMAIN ss
       THEN [ss EXCEPT ![sessionId].flow_id = flowId,
                       ![sessionId].current_screen = current_screen,
                       ![sessionId].session_data = session_data,
                       ![sessionId].expires_at = t + SessionTtlHours]
       ELSE (sessionId :> [id |-> sessionId, flow_id |-> flowId,
                           current_screen |-> current_screen,
                           session_data |-> session_data,
                           expires_at |-> t + SessionTtlHours,
                           created_at |-> t, updated_at |-> t]) @@ ss

\* FlowSession.findOneAndUpdate({id}, {current_screen, session_data, updated_at}, {new: true})
updateSession(ss, sessionId, current_screen, session_data, t) ==
    IF sessionId \in DOMAIN ss
    THEN [ss EXCEPT ![sessionId].current_screen = current_screen,
                    ![sessionId].session_data = session_data,
                    ![sessionId].updated_at = t]
    ELSE ss

\* FlowSession.findOne({id}) found a document
getSession(ss, sessionId) == sessionId \in DOMAIN ss

\* Mutant: an earlier answer to the same field of the same session is replaced.
saveUserResponses_replace(rs, sessionId, screenId, payload, t) ==
    LET fields == { payload.entries[i][1] : i \in 1..Len(payload.entries) }
        keep(r) == ~(r.session_id = sessionId /\ r.field_name \in fields)
    IN SelectSeq(rs, keep) \o
         [i \in 1..Len(payload.entries) |->
            [flow_id |-> "default_flow",
             session_id |-> sessionId,
             screen_id |-> screenId,
             field_name |-> payload.entries[i][1],
             field_value |-> JSONstringifyString(payload.entries[i][2]),
             response_data |-> JSONstringifyObject(payload),
             created_at |-> t]]

\* Mutant: only the first entry of the payload is saved.
saveUserResponses_first(rs, sessionId, screenId, payload, t) ==
    rs \o [i \in 1..(IF Len(payload.entries) > 0 THEN 1 ELSE 0) |->
            [flow_id |-> "default_flow",
             session_id |-> sessionId,
             screen_id |-> screenId,
             field_name |-> payload.entries[i][1],
             field_value |-> JSONstringifyString(payload.entries[i][2]),
             response_data |-> JSONstringifyObject(payload),
             created_at |-> t]]

\* One new FlowResponse document per entry of Object.entries(responses)
saveUserResponses(rs, sessionId, screenId, payload, t) ==
    rs \o [i \in 1..Len(payload.entries) |->
            [flow_id |-> "default_flow",
             session_id |-> sessionId,
             screen_id |-> screenId,
             field_name |-> payload.entries[i][1],
             field_value |-> JSONstringifyString(payload.entries[i][2]),
             response_data |-> JSONstringifyObject(payload),
             created_at |-> t]]

(***************************************************************************)
(* Flow Action State Machine                                               *)
(* A store state is a record S of the four things a handler can change.    *)
(***************************************************************************)
Returned(S, result) ==
    [S |-> S, threw |-> FALSE, error |-> Absent, result |-> result]

Threw(S, message) ==
    [S |-> S, threw |-> TRUE, error |-> message, result |-> EmptyObject]

handleInitAction(S, b, fetched, t) ==
    LET generate == b.session_id = Absent
        sessionId == IF generate THEN Uuid(S.uuidCount + 1) ELSE b.session_id
        ss == createOrUpdateSession(S.sessions, sessionId, b.flow_token, b.screen,
                                    JSONstringifyObject(b.payload), t)
        sd == getScreenData(S.flowData, b.screen, fetched, t)
    IN Returned([S EXCEPT !.sessions = ss, !.flowData = sd.flowData,
                          !.uuidCount = IF generate THEN @ + 1 ELSE @],
                [screen |-> "FORM",
                 data |-> [data_source |-> << [id |-> "US", title |-> "United States"],
                                              [id |-> "UK", title |-> "United Kingdom"] >>]])

\* Mutant: the session lookup is skipped.
handleBackAction_noLookup(S, b, fetched, t) ==
    IF b.session_id = Absent THEN Threw(S, "Session ID required for BACK action")
    ELSE
      LET ss == updateSession(S.sessions, b.session_id, b.screen,
                              JSONstringifyObject(b.payload), t)
          sd == getScreenData(S.flowData, b.screen, fetched, t)
      IN Returned([S EXCEPT !.sessions = ss, !.flowData = sd.flowData],
                  [version |-> "7.2", screen |-> b.screen, data |-> sd.screenData,
                   session_id |-> b.session_id])

handleBackAction(S, b, fetched, t) ==
    IF b.session_id = Absent THEN Threw(S, "Session ID required for BACK action")
    ELSE IF ~getSession(S.sessions, b.session_id) THEN Threw(S, "Session not found")
    ELSE
      LET ss == updateSession(S.sessions, b.session_id, b.screen,
                              JSONstringifyObject(b.payload), t)
          sd == getScreenData(S.flowData, b.screen, fetched, t)
      IN Returned([S EXCEPT !.sessions = ss, !.flowData = sd.flowData],
                  [version |-> "7.2", screen |-> b.screen, data |-> sd.screenData,
                   session_id |-> b.session_id])

processDataExchange(b, t) == [processed |-> TRUE, screen |-> b.screen, timestamp |-> t]

\* The routing function: "" stands for null (no further screen).
determineNextScreen(b) == Absent

\* Mutant: a refresh that does not succeed is rethrown by the handler.
handleDataExchangeAction_fetchFatal(S, b, fetched, t) ==
    IF b.session_id = Absent THEN Threw(S, "Session ID required for DATA_EXCHANGE action")
    ELSE IF FindOneFlowData(S.flowData, b.screen, "api_config") # 0 /\ fetched.kind # "ok"
    THEN Threw(S, "fetch failed")
    ELSE
      LET rs == IF b.payload.present
                THEN saveUserResponses(S.responses, b.session_id, b.screen, b.payload, t)
                ELSE S.responses
          sd == getScreenData(S.flowData, b.screen, fetched, t)
          nextScreen == determineNextScreen(b)
      IN Returned([S EXCEPT !.responses = rs, !.flowData = sd.flowData],
                  [version |-> "7.2",
                   screen |-> IF nextScreen # Absent THEN nextScreen ELSE "SUCCESS",
                   data |-> sd.screenData @@ processDataExchange(b, t),
                   session_id |-> b.session_id])

handleDataExchangeAction(S, b, fetched, t) ==
    IF b.session_id = Absent THEN Threw(S, "Session ID required for DATA_EXCHANGE action")
    ELSE
      LET rs == IF b.payload.present
                THEN saveUserResponses(S.responses, b.session_id, b.screen, b.payload, t)
                ELSE S.responses
          sd == getScreenData(S.flowData, b.screen, fetched, t)
          nextScreen == determineNextScreen(b)
      IN Returned([S EXCEPT !.responses = rs, !.flowData = sd.flowData],
                  [version |-> "7.2",
                   screen |-> IF nextScreen # Absent THEN nextScreen ELSE "SUCCESS",
                   data |-> sd.screenData @@ processDataExchange(b, t),
                   session_id |-> b.session_id])

handleCompleteAction(S, b, t) ==
    IF b.session_id = Absent THEN Threw(S, "Session ID required for COMPLETE action")
    ELSE
      LET rs == IF b.payload.present
                THEN saveUserResponses(S.responses, b.session_id, b.screen, b.payload, t)
                ELSE S.responses
          ss == updateSession(S.sessions, b.session_id, "COMPLETED",
                              JSONstringifyObject(b.payload), t)
      IN Returned([S EXCEPT !.responses = rs, !.sessions = ss],
                  [version |-> "7.2", screen |-> "SUCCESS",
                   data |-> [message |-> "Flow completed successfully", completed_at |-> t],
                   session_id |-> b.session_id])

\* Mutant: the health check is logged as an answer record.
handlePingAction_logged(S) ==
    Returned([S EXCEPT !.responses =
                  Append(@, [flow_id |-> "default_flow", session_id |-> Absent,
                             screen_id |-> Absent, field_name |-> "ping",
                             field_value |-> "\"active\"", response_data |-> "{}",
                             created_at |-> 0])],
             [data |-> [status |-> "active"]])

handlePingAction(S) == Returned(S, [data |-> [status |-> "active"]])

\* Mutant: the switch has no default branch of its own; an unknown tag falls
\* into the COMPLETE handler.
processFlowAction_noDefault(S, b, fetched, t) ==
    CASE b.action = "INIT" -> handleInitAction(S, b, fetched, t)
      [] b.action = "BACK" -> handleBackAction(S, b, fetched, t)
      [] b.action = "DATA_EXCHANGE" -> handleDataExchangeAction(S, b, fetched, t)
      [] b.action = "ping" -> handlePingAction(S)
      [] OTHER -> handleCompleteAction(S, b, t)

processFlowAction(S, b, fetched, t) ==
    CASE b.action = "INIT" -> handleInitAction(S, b, fetched, t)
      [] b.action = "BACK" -> handleBackAction(S, b, fetched, t)
      [] b.action = "DATA_EXCHANGE" -> handleDataExchangeAction(S, b, fetched, t)
      [] b.action = "COMPLETE" -> handleCompleteAction(S, b, t)
      [] b.action = "ping" -> handlePingAction(S)
      [] OTHER -> Threw(S, "Unknown action: " \o b.action)

validateFlowRequest(b) == b.action # Absent /\ b.screen # Absent

(***************************************************************************)
(* Transport Codec and Signature Verifier (symbolic cryptography)          *)
(* A key pair is named by one string: encrypting to public key k can only  *)
(* be undone with private key k.  An envelope is                           *)
(*   wrappedFor : the key pair whose public key wrapped the AES key        *)
(*   aes, iv    : the AES key and the initialization vector (bytes)        *)
(*   tagValid   : whether the GCM tag of encrypted_flow_data verifies      *)
(*   body       : the JSON document that was encrypted                     *)
(*   signedWith : the secret the X-Hub-Signature-256 header was computed   *)
(*                with over the raw body, Absent when there is no header   *)
(***************************************************************************)
\* Mutant: the byte is negated (-b) instead of complemented (~b).
FlipByte_negate(b) == ((0 - b) + 256) % 256

\* ~b stored into a Buffer: the two's complement value reduced modulo 256
FlipByte(b) == ((0 - b - 1) + 256) % 256

\* Mutant: the response is encrypted under the request's own IV.
encryptResponse_sameIv(response, aesKeyBuffer, initialVectorBuffer) ==
    [cipher |-> "aes-128-gcm",
     key |-> aesKeyBuffer,
     iv |-> initialVectorBuffer,
     plaintext |-> response]

\* The string encryptResponse returns, kept symbolic: the AES-128-GCM
\* ciphertext of JSON.stringify(response) under the given key and the flipped
\* IV, followed by the authentication tag of that encryption.
encryptResponse(response, aesKeyBuffer, initialVectorBuffer) ==
    [cipher |-> "aes-128-gcm",
     key |-> aesKeyBuffer,
     iv |-> [i \in DOMAIN initialVectorBuffer |-> FlipByte(initialVectorBuffer[i])],
     plaintext |-> response]

TAG_LENGTH == 16

\* flowDataBuffer.subarray(0, -TAG_LENGTH): the ciphertext without its tag
encrypted_flow_data_body(flowDataBuffer) ==
    [cipher |-> flowDataBuffer.cipher, key |-> flowDataBuffer.key,
     iv |-> flowDataBuffer.iv, plaintext |-> flowDataBuffer.plaintext]

\* flowDataBuffer.subarray(-TAG_LENGTH): the tag, which authenticates one
\* ciphertext under one key and one IV
encrypted_flow_data_tag(flowDataBuffer) ==
    [length |-> TAG_LENGTH, key |-> flowDataBuffer.key, iv |-> flowDataBuffer.iv,
     plaintext |-> flowDataBuffer.plaintext]

\* createDecipheriv("aes-128-gcm", key, iv), setAuthTag(tag), update(body),
\* final(), JSON.parse: final() throws unless the tag is the one of this
\* ciphertext under this key and IV.
decipher(body, tag, key, iv) ==
    IF /\ body.cipher = "aes-128-gcm" /\ tag.length = TAG_LENGTH
       /\ body.key = key /\ body.iv = iv
       /\ tag.key = key /\ tag.iv = iv /\ tag.plaintext = body.plaintext
    THEN [ok |-> TRUE, decryptedBody |-> body.plaintext]
    ELSE [ok |-> FALSE, decryptedBody |-> EmptyObject]

\* The flow-data half of decryptRequest applied to a base64 string.
decryptFlowData(flowDataBuffer, key, iv) ==
    decipher(encrypted_flow_data_body(flowDataBuffer),
             encrypted_flow_data_tag(flowDataBuffer), key, iv)

\* Outcome of decryptRequest(body, privateKeyPem): "ok", "421" (the
\* FlowEndpointException of a failed key unwrap) or "error" (anything else).
decryptRequest(env, privateKeyPem) ==
    IF privateKeyPem = Absent THEN "error"
    ELSE IF privateKeyPem # env.wrappedFor THEN "421"
    ELSE IF ~env.tagValid THEN "error"
    ELSE "ok"

validateSignature(signedWith, appSecret) ==
    IF appSecret = Absent THEN TRUE
    ELSE signedWith # Absent /\ signedWith = appSecret

\* processEncryptedFlowRequest when decryptRequest threw (outcome dec).
DecryptionFailed(S, sigValid, dec) ==
    [S |-> S, threw |-> TRUE, sigValid |-> sigValid, decrypt |-> dec,
     called |-> FALSE, call |-> Threw(S, Absent), encrypted |-> EmptyObject,
     error |-> IF dec = "421"
               THEN "Failed to decrypt the request. Please verify your private key."
               ELSE "Decryption failed"]

\* processEncryptedFlowRequest after decryption: `call` is the outcome of
\* processFlowAction(decryptedBody); a result is encrypted, an error rethrown.
Processed(env, sigValid, call) ==
    [S |-> call.S, threw |-> call.threw, sigValid |-> sigValid, decrypt |-> "ok",
     called |-> TRUE, call |-> call, error |-> call.error,
     encrypted |-> IF call.threw THEN EmptyObject
                   ELSE encryptResponse(call.result, env.aes, env.iv)]

\* processEncryptedFlowRequest(req, privateKeyPem, appSecret): the result of
\* validateSignature is only logged.
processEncryptedFlowRequest(S, env, privateKeyPem, appSecret, fetched, t) ==
    IF decryptRequest(env, privateKeyPem) # "ok"
    THEN DecryptionFailed(S, validateSignature(env.signedWith, appSecret),
                          decryptRequest(env, privateKeyPem))
    ELSE Processed(env, validateSignature(env.signedWith, appSecret),
                   processFlowAction(S, env.body, fetched, t))

(***************************************************************************)
(* Tenant Key Resolver: POST /data-endpoint, encrypted branch              *)
(***************************************************************************)
\* What `last` records of one processFlowAction call made in store state S:
\* the arguments, the outcome, and two facts about S itself.
Called(S, b, call) ==
    [called |-> TRUE, body |-> b, threw |-> call.threw, error |-> call.error,
     result |-> call.result,
     found |-> b.session_id \in DOMAIN S.sessions,
     answersBefore |-> Len(S.responses)]

Has(v) == v # Absent

\* The candidate list after the three Business.find(...) tiers.
Candidates(bs) ==
    LET uploaded(b) == b.public_key_uploaded /\ Has(b.access_token) /\ Has(b.private_key)
        fallback(b) == Has(b.private_key) /\ Has(b.access_token)
        token(b) == Has(b.access_token)
    IN IF SelectSeq(bs, uploaded) # <<>> THEN SelectSeq(bs, uploaded)
       ELSE IF SelectSeq(bs, fallback) # <<>> THEN SelectSeq(bs, fallback)
       ELSE SelectSeq(bs, token)

\* for (const business of businesses) { try { ... break } catch { continue } }
\* run from candidate i on; `tried` lists the attempts made so far.
RECURSIVE ResolverLoop(_, _, _, _, _, _, _, _)
RECURSIVE AfterAttempt(_, _, _, _, _, _, _, _, _)
ResolverLoop(S, cands, i, env, fetched, t, tried, lastCall) ==
    IF i > Len(cands)
    THEN [S |-> S, decryptionSuccessful |-> FALSE, attempts |-> tried,
          lastCall |-> lastCall, returned |-> EmptyObject]
    ELSE AfterAttempt(S, cands, i, env, fetched, t, tried, lastCall,
                      processEncryptedFlowRequest(S, env, cands[i].private_key,
                                                  cands[i].app_secret, fetched, t))

\* Mutant: the loop has no break; it goes on after a success.
AfterAttempt_noBreak(S, cands, i, env, fetched, t, tried, lastCall, r) ==
    LET att == Append(tried, [business |-> cands[i].id, signedWith |-> env.signedWith,
                              sigValid |-> r.sigValid,
                              decrypt |-> r.decrypt, threw |-> r.threw,
                              returned |-> r.encrypted])
        lc == IF r.called THEN Called(S, env.body, r.call) ELSE lastCall
    IN IF r.threw \/ i < Len(cands)
       THEN ResolverLoop(r.S, cands, i + 1, env, fetched, t, att, lc)
       ELSE [S |-> r.S, decryptionSuccessful |-> TRUE, attempts |-> att,
             lastCall |-> lc, returned |-> r.encrypted]

\* r is what processEncryptedFlowRequest did for candidate i: a return value
\* ends the loop (break), an exception moves on to the next candidate.
AfterAttempt(S, cands, i, env, fetched, t, tried, lastCall, r) ==
    LET att == Append(tried, [business |-> cands[i].id, signedWith |-> env.signedWith,
                              sigValid |-> r.sigValid,
                              decrypt |-> r.decrypt, threw |-> r.threw,
                              returned |-> r.encrypted])
        lc == IF r.called THEN Called(S, env.body, r.call) ELSE lastCall
    IN IF r.threw
       THEN ResolverLoop(r.S, cands, i + 1, env, fetched, t, att, lc)
       ELSE [S |-> r.S, decryptionSuccessful |-> TRUE, attempts |-> att,
             lastCall |-> lc, returned |-> r.encrypted]

(***************************************************************************)
(* POST /data-endpoint                                                     *)
(***************************************************************************)
NoBody == [action |-> Absent, screen |-> Absent, flow_token |-> Absent,
           session_id |-> Absent, payload |-> NoPayload]

NoCall == [called |-> FALSE, body |-> NoBody, threw |-> FALSE, error |-> Absent,
           result |-> EmptyObject, found |-> FALSE, answersBefore |-> 0]

NoEnvelope == [wrappedFor |-> Absent, aes |-> Absent, iv |-> <<>>, tagValid |-> FALSE,
               body |-> NoBody, signedWith |-> Absent]

JsNull == [null |-> TRUE]

\* res.send(v) after res.set("Content-Type", "text/plain")
ResSend(v) ==
    [status |-> 200, contentType |-> "text/plain",
     body |-> IF v = JsNull THEN [kind |-> "empty"] ELSE [kind |-> "text", value |-> v]]

\* res.status(code).json(v)
ResJson(code, v) ==
    [status |-> code, contentType |-> "application/json", body |-> [kind |-> "json", value |-> v]]

Stores == [sessions |-> sessions, responses |-> responses, flowData |-> flowData,
           uuidCount |-> uuidCount]

Commit(S) ==
    /\ sessions' = S.sessions
    /\ responses' = S.responses
    /\ flowData' = S.flowData
    /\ uuidCount' = S.uuidCount

\* Mutant: one envelope field is enough to take the encrypted branch.
IsEncrypted_any(req) ==
    req.has.encrypted_flow_data \/ req.has.encrypted_aes_key \/ req.has.initial_vector

\* The request has all three envelope fields.
IsEncrypted(req) ==
    req.has.encrypted_flow_data /\ req.has.encrypted_aes_key /\ req.has.initial_vector

\* The encrypted branch after the loop over the candidates.
AfterLoop(loop) ==
    LET \* the variable declared before the loop; the loop body declares its own
        encryptedResponse == JsNull
    IN /\ Commit(loop.S)
       /\ last' = loop.lastCall
       /\ attempts' = loop.attempts
       /\ http' = IF ~loop.decryptionSuccessful
                  THEN ResJson(421, [error |-> "Decryption failed",
                                     message |-> "Unable to decrypt request with any available business key"])
                  ELSE ResSend(encryptedResponse)

EncryptedBranch(req, fetched) ==
    IF Candidates(businesses) = <<>>
    THEN /\ Commit(Stores)
         /\ last' = NoCall
         /\ attempts' = <<>>
         /\ http' = ResJson(500, [error |-> "No businesses configured",
                                  message |-> "No businesses found with public keys uploaded"])
    ELSE AfterLoop(ResolverLoop(Stores, Candidates(businesses), 1, req.env, fetched,
                                now, <<>>, NoCall))

\* The unencrypted branch once the request is valid: call is the outcome of
\* processFlowAction; an exception reaches the handler's outer catch.
AfterAction(req, call) ==
    /\ Commit(call.S)
    /\ last' = Called(Stores, req.body, call)
    /\ http' = IF call.threw
               THEN ResJson(500, [error |-> "Flow processing failed",
                                  message |-> call.error])
               ELSE ResJson(200, call.result)

UnencryptedBranch(req, fetched) ==
    IF ~validateFlowRequest(req.body)
    THEN /\ Commit(Stores)
         /\ last' = NoCall
         /\ http' = ResJson(400, [error |-> "Invalid request",
                                  message |-> "Missing required fields: action, screen"])
    ELSE AfterAction(req, processFlowAction(Stores, req.body, fetched, now))

DataEndpoint(req, fetched) ==
    /\ nreq' = nreq + 1
    /\ request' = req
    /\ IF IsEncrypted(req)
       THEN EncryptedBranch(req, fetched)
       ELSE UnencryptedBranch(req, fetched) /\ attempts' = <<>>
    /\ UNCHANGED <<businesses, now, codec, procs, keyCount, platform>>

(***************************************************************************)
(* Requests                                                                *)
(***************************************************************************)
P1 == Obj(<< <<"country", "US">> >>)

P2 == Obj(<< <<"country", "UK">>, <<"city", "NY">> >>)

Body(a, sc, ft, sid, p) ==
    [action |-> a, screen |-> sc, flow_token |-> ft, session_id |-> sid, payload |-> p]

Bodies ==
    { Body("INIT", sc, x[1], sid, x[2]) :
        sc \in {"FORM", "DETAILS"}, sid \in {Absent, "s1"},
        x \in { <<Absent, NoPayload>>, <<"flowA", P1>> } }
    \cup { Body("BACK", sc, Absent, sid, NoPayload) :
             sc \in {"FORM", "DETAILS"}, sid \in {"s1", "u1"} }
    \cup { Body("BACK", "DETAILS", Absent, "s1", P1), Body("BACK", "FORM", Absent, Absent, NoPayload) }
    \cup { Body("DATA_EXCHANGE", "FORM", Absent, sid, p) :
             sid \in {"s1", "u1"}, p \in {NoPayload, P1, P2} }
    \cup { Body("COMPLETE", "FORM", Absent, sid, p) :
             sid \in {"s1", "u1"}, p \in {NoPayload, P1} }
    \cup { Body("DATA_EXCHANGE", "FORM", Absent, Absent, P1),
           Body("COMPLETE", "FORM", Absent, Absent, P1),
           Body("ping", "FORM", Absent, Absent, NoPayload),
           Body("BOGUS", "FORM", Absent, "s1", P1) }

\* Unencrypted bodies that fail validateFlowRequest
InvalidBodies ==
    { Body("ping", Absent, Absent, Absent, NoPayload),
      Body(Absent, "FORM", Absent, "s1", P1) }

\* business_id is the explicit tenant identifier of the request (header
\* x-business-id or body field business_id), Absent when it carries none.
PlainRequest(b) ==
    [has |-> [encrypted_flow_data |-> FALSE, encrypted_aes_key |-> FALSE,
              initial_vector |-> FALSE],
     env |-> NoEnvelope, body |-> b, business_id |-> Absent]

PlainRequests == { PlainRequest(b) : b \in Bodies \cup InvalidBodies }

EncBodies ==
    { Body("INIT", "FORM", "flowA", Absent, NoPayload),
      Body("BACK", "DETAILS", Absent, "u1", NoPayload),
      Body("BACK", "FORM", Absent, "s1", NoPayload),
      Body("DATA_EXCHANGE", "FORM", Absent, "u1", P1),
      Body("COMPLETE", "FORM", Absent, "u1", P1),
      Body("ping", Absent, Absent, Absent, NoPayload),
      Body("BOGUS", "FORM", Absent, Absent, NoPayload) }

Envelope(k, tag, sig, b) ==
    [wrappedFor |-> k, aes |-> "aes1", iv |-> <<0, 7, 255>>, tagValid |-> tag,
     body |-> b, signedWith |-> sig]

EncRequest(e, businessId) ==
    [has |-> [encrypted_flow_data |-> TRUE, encrypted_aes_key |-> TRUE,
              initial_vector |-> TRUE],
     env |-> e, body |-> NoBody, business_id |-> businessId]

Ping == Body("ping", Absent, Absent, Absent, NoPayload)

EncRequests ==
    { EncRequest(Envelope(k, TRUE, sig, b), Absent) :
        k \in {"k1", "k2"}, sig \in {"secret1", Absent}, b \in EncBodies }
    \cup { EncRequest(Envelope("k9", TRUE, "secret1", Ping), Absent),
           EncRequest(Envelope("k1", FALSE, "secret1", Ping), Absent),
           EncRequest(Envelope("k1", TRUE, "secret1", Ping), "b1"),
           EncRequest(Envelope("k1", TRUE, "secret1", Ping), "b2") }

(***************************************************************************)
(* Initial states and specifications                                       *)
(***************************************************************************)
\* No payload is being taken through the codec.
NoCodec == [stage |-> "idle"]

\* No request is waiting for the external data source.
NoFetching == [state |-> "idle"]

Business(id, priv, secret, token, uploaded) ==
    [id |-> id, private_key |-> priv, app_secret |-> secret, access_token |-> token,
     public_key_uploaded |-> uploaded]

\* Tenant populations the Business collection can hold.
Populations ==
    { << >>,
      << Business("b1", "k1", "secret1", "token1", TRUE),
         Business("b2", "k2", "secret2", "token2", TRUE) >>,
      << Business("b2", "k2", "secret2", "token2", TRUE),
         Business("b1", "k1", "secret1", "token1", FALSE) >>,
      << Business("b3", Absent, Absent, "token3", FALSE),
         Business("b1", "k1", Absent, "token1", FALSE) >>,
      << Business("b3", Absent, "secret3", "token3", FALSE) >> }

\* A FlowData document holding a refresh-source configuration for a screen.
ApiConfigDoc(screenId) ==
    [business_id |-> "b1", flow_id |-> "flowA", screen_id |-> screenId,
     field_name |-> "api_config", field_value |-> Absent,
     api_config |-> "{\"endpoint\":\"https://source.example/options\"}",
     created_at |-> 0, updated_at |-> 0]

FlowDataSeeds == { << >>, << ApiConfigDoc("DETAILS") >> }

InitStores ==
    /\ sessions = << >>
    /\ responses = << >>
    /\ uuidCount = 0
    /\ now = 0
    /\ nreq = 0
    /\ last = NoCall
    /\ attempts = << >>
    /\ http = ResJson(200, EmptyObject)
    /\ request = PlainRequest(NoBody)
    /\ fetching = NoFetching
    /\ procs = << >>
    /\ keyCount = 0
    /\ platform = << >>

Init ==
    /\ InitStores
    /\ codec = NoCodec
    /\ businesses = << >>
    /\ flowData \in FlowDataSeeds

Next ==
    \E req \in PlainRequests, fetched \in FetchOutcomes :
        nreq < MaxRequests /\ DataEndpoint(req, fetched) /\ UNCHANGED fetching

Spec == Init /\ [][Next]_vars

InitEnc ==
    /\ InitStores
    /\ codec = NoCodec
    /\ businesses \in Populations
    /\ flowData = << >>

NextEnc ==
    \E req \in EncRequests, fetched \in FetchOutcomes :
        nreq < MaxEncRequests /\ DataEndpoint(req, fetched) /\ UNCHANGED fetching

SpecEnc == InitEnc /\ [][NextEnc]_vars

(***************************************************************************)
(* The transport codec on its own: a response payload, a symmetric key and *)
(* a request IV are taken through encryptResponse and then through the     *)
(* decryption the receiving side performs.                                 *)
(***************************************************************************)
Bytes == 0..255

SampleBytes == {0, 127, 255}

\* Request IVs: every one-byte buffer, and longer ones over the sample bytes.
InitialVectors ==
    { << b >> : b \in Bytes }
    \cup UNION { [1..n -> SampleBytes] : n \in 2..MaxIvLen }

AesKeys == {"aes1", "aes2"}

\* Response objects the flow handlers return.
CodecPayloads ==
    { EmptyObject,
      [data |-> [status |-> "active"]],
      [screen |-> "SUCCESS", data |-> EmptyObject] }

\* The IV the receiving side derives from the one it sent.
Complement(v) == [i \in DOMAIN v |-> 255 - v[i]]

InitCodec ==
    /\ InitStores
    /\ businesses = << >>
    /\ flowData = << >>
    /\ codec \in [stage : {"request"}, P : CodecPayloads, K : AesKeys, V : InitialVectors]

Encrypt ==
    /\ codec.stage = "request"
    /\ codec' = [stage |-> "encrypted", P |-> codec.P, K |-> codec.K, V |-> codec.V,
                 out |-> encryptResponse(codec.P, codec.K, codec.V)]

Decrypt ==
    /\ codec.stage = "encrypted"
    /\ codec' = [stage |-> "decrypted", P |-> codec.P, K |-> codec.K, V |-> codec.V,
                 out |-> codec.out,
                 back |-> decryptFlowData(codec.out, codec.K, Complement(codec.V))]

NextCodec ==
    /\ Encrypt \/ Decrypt
    /\ UNCHANGED <<businesses, sessions, responses, flowData, now, uuidCount, nreq,
                   last, attempts, http, request, fetching, procs, keyCount, platform>>

SpecCodec == InitCodec /\ [][NextCodec]_vars

(***************************************************************************)
(* The screen data provider with the external data source as a party of    *)
(* its own: a request whose handler reaches fetch(apiConfig.endpoint) waits *)
(* until the source has answered; the handler then runs to its end.        *)
(***************************************************************************)
\* processFlowAction(b) in store state S reaches the fetch of getScreenData.
RefreshTriggered(S, b) ==
    /\ validateFlowRequest(b)
    /\ FindOneFlowData(S.flowData, b.screen, "api_config") # 0
    /\ S.flowData[FindOneFlowData(S.flowData, b.screen, "api_config")].api_config # Absent
    /\ \/ b.action = "INIT"
       \/ b.action = "BACK" /\ b.session_id # Absent /\ getSession(S.sessions, b.session_id)
       \/ b.action = "DATA_EXCHANGE" /\ b.session_id # Absent

ScreenBodies ==
    { Body("INIT", "DETAILS", "flowA", "s1", P1),
      Body("BACK", "DETAILS", Absent, "s1", NoPayload),
      Body("BACK", "FORM", Absent, "s1", NoPayload),
      Body("DATA_EXCHANGE", "DETAILS", Absent, "s1", P1),
      Body("COMPLETE", "DETAILS", Absent, "s1", P1),
      Body("ping", "DETAILS", Absent, Absent, NoPayload) }

ScreenRequests == { PlainRequest(b) : b \in ScreenBodies }

ScreenFetchOutcomes == FetchOutcomes \cup {Untransformable}

\* The outcome handed to a handler that never reaches the fetch.
NotFetched == [kind |-> "throw"]

InitScreen ==
    /\ InitStores
    /\ codec = NoCodec
    /\ businesses = << >>
    /\ flowData \in FlowDataSeeds

\* A request arrives; its handler either runs to its end or reaches the fetch.
Receive(req) ==
    /\ fetching.state \in {"idle", "done"}
    /\ nreq < MaxScreenRequests
    /\ IF RefreshTriggered(Stores, req.body)
       THEN /\ fetching' = [state |-> "waiting", req |-> req]
            /\ UNCHANGED <<businesses, sessions, responses, flowData, now, uuidCount, nreq,
                           last, attempts, http, request, codec, procs, keyCount, platform>>
       ELSE /\ DataEndpoint(req, NotFetched)
            /\ fetching' = NoFetching

\* The external source answers, or the connection fails.
SourceAnswers(outcome) ==
    /\ fetching.state = "waiting"
    /\ fetching' = [state |-> "answered", req |-> fetching.req, outcome |-> outcome]
    /\ UNCHANGED <<businesses, sessions, responses, flowData, now, uuidCount, nreq,
                   last, attempts, http, request, codec, procs, keyCount, platform>>

\* The handler continues after `await fetch(...)` and answers the request.
Respond ==
    /\ fetching.state = "answered"
    /\ DataEndpoint(fetching.req, fetching.outcome)
    /\ fetching' = [state |-> "done", req |-> fetching.req, outcome |-> fetching.outcome,
                    cacheBefore |-> flowData,
                    served |-> getScreenData(flowData, fetching.req.body.screen,
                                             fetching.outcome, now).screenData]

NextScreen ==
    \/ \E req \in ScreenRequests : Receive(req)
    \/ \E outcome \in ScreenFetchOutcomes : SourceAnswers(outcome)
    \/ Respond

SpecScreen == InitScreen /\ [][NextScreen]_vars

\* The program takes every step it can take; the external source and the
\* clients are under no obligation.
SpecScreenFair == SpecScreen /\ WF_vars(Respond)

(***************************************************************************)
(* Session expiry: the clock advances between requests and the store's TTL *)
(* monitor removes expired session documents at moments of its own.        *)
(***************************************************************************)
\* The clock advances in steps of half a session lifetime.
TickHours == SessionTtlHours \div 2

TtlBodies ==
    { Body("INIT", "FORM", "flowA", "s1", NoPayload),
      Body("BACK", "FORM", Absent, "s1", NoPayload),
      Body("DATA_EXCHANGE", "FORM", Absent, "s1", P1),
      Body("COMPLETE", "FORM", Absent, "s1", P1) }

InitTtl ==
    /\ InitStores
    /\ codec = NoCodec
    /\ businesses = << >>
    /\ flowData = << >>

TtlRequest ==
    \E b \in TtlBodies :
        /\ nreq < MaxTtlRequests
        /\ DataEndpoint(PlainRequest(b), NotFetched)
        /\ UNCHANGED fetching

Tick ==
    /\ now < MaxTicks * TickHours
    /\ now' = now + TickHours
    /\ UNCHANGED <<businesses, sessions, responses, flowData, uuidCount, nreq, last,
                   attempts, http, request, codec, fetching, procs, keyCount, platform>>

\* The session's expiry timestamp has passed.
Expired(session, t) == session.expires_at < t

\* The TTL index {expires_at: 1} with expireAfterSeconds: 0.
TtlPurge ==
    /\ \E id \in DOMAIN sessions : Expired(sessions[id], now)
    /\ sessions' = [id \in { i \in DOMAIN sessions : ~Expired(sessions[i], now) } |->
                       sessions[id]]
    /\ UNCHANGED <<businesses, responses, flowData, now, uuidCount, nreq, last,
                   attempts, http, request, codec, fetching, procs, keyCount, platform>>

NextTtl == TtlRequest \/ Tick \/ TtlPurge

SpecTtl == InitTtl /\ [][NextTtl]_vars

(***************************************************************************)
(* Two requests for one session handled concurrently.  Each handler is a   *)
(* sequence of awaited store operations; between two of them the other     *)
(* handler may run.  pc names the operation a handler performs next.       *)
(***************************************************************************)
RaceBodies ==
    { Body("INIT", "DETAILS", "flowA", "s1", P1),
      Body("BACK", "DETAILS", Absent, "s1", P1),
      Body("BACK", "DETAILS", Absent, "s1", NoPayload),
      Body("DATA_EXCHANGE", "DETAILS", Absent, "s1", P1),
      Body("COMPLETE", "DETAILS", Absent, "s1", P2) }

RaceFetchOutcomes ==
    { [kind |-> "ok",
       data |-> [kind |-> "array", items |-> << [id |-> "US", title |-> "United States"] >>]],
      [kind |-> "notok"] }

\* The outcome of a handler that has not finished.
NoOutcome == [threw |-> FALSE, error |-> Absent, result |-> EmptyObject]

Outcome(call) == [threw |-> call.threw, error |-> call.error, result |-> call.result]

\* A handler moves on to its next operation, or ends with its outcome.
Goes(S, pc) == [S |-> S, pc |-> pc, out |-> NoOutcome]

Ends(call) == [S |-> call.S, pc |-> "done", out |-> Outcome(call)]

\* handleInitAction, one awaited operation at a time.
handleInitActionStep(S, p, t) ==
    IF p.pc = "start"
    THEN Goes([S EXCEPT !.sessions =
                  createOrUpdateSession(@, p.body.session_id, p.body.flow_token,
                                        p.body.screen, JSONstringifyObject(p.body.payload), t)],
              "screen")
    ELSE Ends(Returned([S EXCEPT !.flowData =
                           getScreenData(@, p.body.screen, p.fetched, t).flowData],
                [screen |-> "FORM",
                 data |-> [data_source |-> << [id |-> "US", title |-> "United States"],
                                              [id |-> "UK", title |-> "United Kingdom"] >>]]))

\* handleBackAction, one awaited operation at a time.
handleBackActionStep(S, p, t) ==
    CASE p.pc = "start" ->
           IF getSession(S.sessions, p.body.session_id) THEN Goes(S, "update")
           ELSE Ends(Threw(S, "Session not found"))
      [] p.pc = "update" ->
           Goes([S EXCEPT !.sessions =
                    updateSession(@, p.body.session_id, p.body.screen,
                                  JSONstringifyObject(p.body.payload), t)], "screen")
      [] OTHER ->
           Ends(Returned([S EXCEPT !.flowData =
                             getScreenData(@, p.body.screen, p.fetched, t).flowData],
                  [version |-> "7.2", screen |-> p.body.screen,
                   data |-> getScreenData(S.flowData, p.body.screen, p.fetched, t).screenData,
                   session_id |-> p.body.session_id]))

\* handleDataExchangeAction, one awaited operation at a time.
handleDataExchangeActionStep(S, p, t) ==
    IF p.pc = "start"
    THEN Goes([S EXCEPT !.responses =
                  IF p.body.payload.present
                  THEN saveUserResponses(@, p.body.session_id, p.body.screen,
                                         p.body.payload, t)
                  ELSE @], "screen")
    ELSE Ends(Returned([S EXCEPT !.flowData =
                           getScreenData(@, p.body.screen, p.fetched, t).flowData],
                [version |-> "7.2", screen |-> "SUCCESS",
                 data |-> getScreenData(S.flowData, p.body.screen, p.fetched, t).screenData
                            @@ processDataExchange(p.body, t),
                 session_id |-> p.body.session_id]))

\* handleCompleteAction, one awaited operation at a time.
handleCompleteActionStep(S, p, t) ==
    IF p.pc = "start"
    THEN Goes([S EXCEPT !.responses =
                  IF p.body.payload.present
                  THEN saveUserResponses(@, p.body.session_id, p.body.screen,
                                         p.body.payload, t)
                  ELSE @], "update")
    ELSE Ends(Returned([S EXCEPT !.sessions =
                           updateSession(@, p.body.session_id, "COMPLETED",
                                         JSONstringifyObject(p.body.payload), t)],
                [version |-> "7.2", screen |-> "SUCCESS",
                 data |-> [message |-> "Flow completed successfully", completed_at |-> t],
                 session_id |-> p.body.session_id]))

\* One awaited operation of the handler of process p, in store state S.
HandlerStep(S, p, t) ==
    CASE p.body.action = "INIT" -> handleInitActionStep(S, p, t)
      [] p.body.action = "BACK" -> handleBackActionStep(S, p, t)
      [] p.body.action = "DATA_EXCHANGE" -> handleDataExchangeActionStep(S, p, t)
      [] p.body.action = "COMPLETE" -> handleCompleteActionStep(S, p, t)

\* The stores before the two requests arrive: session s1 stored or not.
RaceStarts ==
    { [sessions |-> ss, responses |-> << >>, flowData |-> << ApiConfigDoc("DETAILS") >>,
       uuidCount |-> 0] :
        ss \in { << >>,
                 createOrUpdateSession(<< >>, "s1", "flowA", "FORM", "{}", 0) } }

InitRace ==
    /\ responses = << >>
    /\ uuidCount = 0
    /\ now = 0
    /\ nreq = 0
    /\ last = NoCall
    /\ attempts = << >>
    /\ http = ResJson(200, EmptyObject)
    /\ request = PlainRequest(NoBody)
    /\ fetching = NoFetching
    /\ keyCount = 0
    /\ platform = << >>
    /\ codec = NoCodec
    /\ businesses = << >>
    /\ \E S \in RaceStarts, b1 \in RaceBodies, b2 \in RaceBodies,
          f1 \in RaceFetchOutcomes, f2 \in RaceFetchOutcomes :
          /\ sessions = S.sessions
          /\ flowData = S.flowData
          /\ procs = [start |-> S,
                      run |-> << [body |-> b1, fetched |-> f1, pc |-> "start", out |-> NoOutcome],
                                 [body |-> b2, fetched |-> f2, pc |-> "start", out |-> NoOutcome] >>]

\* Process i performs its next store operation.
Step(i) ==
    /\ procs.run[i].pc # "done"
    /\ Commit(HandlerStep(Stores, procs.run[i], now).S)
    /\ procs' = [procs EXCEPT !.run[i].pc = HandlerStep(Stores, procs.run[i], now).pc,
                              !.run[i].out = HandlerStep(Stores, procs.run[i], now).out]
    /\ UNCHANGED <<businesses, now, nreq, last, attempts, http, request, codec, fetching,
                   keyCount, platform>>

NextRace == \E i \in 1..2 : Step(i)

SpecRace == InitRace /\ [][NextRace]_vars

(***************************************************************************)
(* The tenant endpoints.  Response bodies are flattened: the fields of a   *)
(* nested "data" or "business" object stand beside the outer ones, and a   *)
(* boolean is written as its JSON text.                                    *)
(***************************************************************************)
MaxTenantRequests == 4

\* Uploads that may be waiting for the platform's answer at once.
MaxUploads == 1

\* public_key_uploaded_at: null; a date t is << t >>.
NoDate == << >>

KeyNames == << "k1", "k2", "k3", "k4", "k5", "k6", "k7", "k8" >>

\* The n-th key pair generated: two halves that name the pair.
generateKeyPair(n) ==
    [privateKey |-> "private:" \o KeyNames[n], publicKey |-> "public:" \o KeyNames[n]]

SamePair(privateKey, publicKey) ==
    \E n \in DOMAIN KeyNames :
        generateKeyPair(n).privateKey = privateKey /\ generateKeyPair(n).publicKey = publicKey

TenantIds == {"b1", "b2"}

\* Bodies of POST /: with or without an app_secret.
BusinessData == { [id |-> i, app_secret |-> a] : i \in TenantIds, a \in {Absent, "secretA"} }

\* Bodies of PUT /:businessId/whatsapp-config; "" is a field left out.
WhatsAppConfigs ==
    { [access_token |-> k, app_secret |-> a] : k \in {Absent, "tokenB"}, a \in {Absent, "secretB"} }

AppSecrets == {Absent, "secretC"}

AccessTokens == {Absent, "tokenD"}

\* Business.findOne({id}): the index of the document, 0 for none.
FindBusiness(bs, id) ==
    IF \E j \in DOMAIN bs : bs[j].id = id
    THEN CHOOSE j \in DOMAIN bs : bs[j].id = id
    ELSE 0

\* new Business({...businessData, public_key, private_key})
createBusiness(businessData, pair) ==
    [id |-> businessData.id,
     public_key |-> pair.publicKey,
     private_key |-> pair.privateKey,
     app_secret |-> businessData.app_secret,
     access_token |-> Absent,
     public_key_uploaded |-> FALSE,
     public_key_uploaded_at |-> NoDate]

\* A field of an update that is undefined is either left out of the update
\* or written as null, as the object mapper decides.
Updated(old, new, omitUndefined) ==
    IF new = Absent /\ omitUndefined THEN old ELSE new

updateWhatsAppConfig(doc, whatsappConfig, omitUndefined) ==
    [doc EXCEPT !.access_token = Updated(@, whatsappConfig.access_token, omitUndefined),
                !.app_secret = Updated(@, whatsappConfig.app_secret, omitUndefined)]

\* Mutant: the rotation leaves the upload flag as it was.
regenerateBusinessKeys_keepFlag(doc, pair) ==
    [doc EXCEPT !.private_key = pair.privateKey,
                !.public_key = pair.publicKey]

regenerateBusinessKeys(doc, pair) ==
    [doc EXCEPT !.private_key = pair.privateKey,
                !.public_key = pair.publicKey,
                !.public_key_uploaded = FALSE,
                !.public_key_uploaded_at = NoDate]

Shown(flag) == IF flag THEN "true" ELSE "false"

\* const {private_key, access_token, app_secret, ...safeBusiness} = business.toObject()
getBusiness(doc) ==
    [id |-> doc.id, public_key |-> doc.public_key,
     public_key_uploaded |-> Shown(doc.public_key_uploaded)]

\* business.toObject()
getBusinessWithCredentials(doc) ==
    [id |-> doc.id, public_key |-> doc.public_key,
     public_key_uploaded |-> Shown(doc.public_key_uploaded),
     private_key |-> doc.private_key, access_token |-> doc.access_token,
     app_secret |-> doc.app_secret]

TenantRequest(method, path, businessId) ==
    [method |-> method, path |-> path, businessId |-> businessId]

NotFound(message) == [error |-> "Business not found", message |-> message]

InitTenants ==
    /\ InitStores
    /\ codec = NoCodec
    /\ businesses = << >>
    /\ flowData = << >>

\* One more request handled; what a tenant endpoint leaves alone.
TenantFrame ==
    /\ nreq < MaxTenantRequests
    /\ nreq' = nreq + 1
    /\ UNCHANGED <<sessions, responses, flowData, now, uuidCount, last, attempts, codec,
                   fetching, platform>>

\* POST /
PostBusiness(businessData) ==
    /\ request' = TenantRequest("POST", "/", businessData.id)
    /\ keyCount' = keyCount + 1
    /\ IF FindBusiness(businesses, businessData.id) # 0
       THEN /\ http' = ResJson(500, [error |-> "Failed to create business",
                                     message |-> "E11000 duplicate key error"])
            /\ UNCHANGED businesses
       ELSE /\ businesses' = Append(businesses,
                                    createBusiness(businessData, generateKeyPair(keyCount + 1)))
            /\ http' = ResJson(201,
                   [success |-> "true", message |-> "Business created successfully"]
                   @@ getBusiness(createBusiness(businessData, generateKeyPair(keyCount + 1))))
    /\ UNCHANGED procs
    /\ TenantFrame

\* GET /:businessId
GetBusiness(id) ==
    /\ request' = TenantRequest("GET", "/:businessId", id)
    /\ http' = IF FindBusiness(businesses, id) = 0
               THEN ResJson(404, NotFound("Business not found"))
               ELSE ResJson(200, [success |-> "true"]
                                 @@ getBusiness(businesses[FindBusiness(businesses, id)]))
    /\ UNCHANGED <<businesses, keyCount, procs>>
    /\ TenantFrame

\* GET /:businessId/with-credentials
GetBusinessWithCredentials(id) ==
    /\ request' = TenantRequest("GET", "/:businessId/with-credentials", id)
    /\ http' = IF FindBusiness(businesses, id) = 0
               THEN ResJson(404, NotFound("Business not found"))
               ELSE ResJson(200, [success |-> "true"]
                       @@ getBusinessWithCredentials(businesses[FindBusiness(businesses, id)]))
    /\ UNCHANGED <<businesses, keyCount, procs>>
    /\ TenantFrame

\* PUT /:businessId/whatsapp-config
PutWhatsAppConfig(id, whatsappConfig, omitUndefined) ==
    /\ request' = TenantRequest("PUT", "/:businessId/whatsapp-config", id)
    /\ IF FindBusiness(businesses, id) = 0
       THEN /\ http' = ResJson(500, [error |-> "Failed to update WhatsApp configuration",
                                     message |-> "Business not found"])
            /\ UNCHANGED businesses
       ELSE /\ businesses' =
                 [businesses EXCEPT ![FindBusiness(businesses, id)] =
                     updateWhatsAppConfig(@, whatsappConfig, omitUndefined)]
            /\ http' = ResJson(200,
                   [success |-> "true",
                    message |-> "WhatsApp configuration updated successfully"]
                   @@ getBusiness(updateWhatsAppConfig(businesses[FindBusiness(businesses, id)],
                                                       whatsappConfig, omitUndefined)))
    /\ UNCHANGED <<keyCount, procs>>
    /\ TenantFrame

\* GET /:businessId/app-secret
GetAppSecret(id) ==
    /\ request' = TenantRequest("GET", "/:businessId/app-secret", id)
    /\ http' = IF FindBusiness(businesses, id) = 0
               THEN ResJson(404, NotFound("Business with ID " \o id \o " not found"))
               ELSE ResJson(200,
                      [success |-> "true", id |-> id,
                       app_secret |-> businesses[FindBusiness(businesses, id)].app_secret,
                       has_app_secret |->
                           Shown(businesses[FindBusiness(businesses, id)].app_secret # Absent),
                       access_token |->
                           IF businesses[FindBusiness(businesses, id)].access_token # Absent
                           THEN "***masked***" ELSE "null",
                       has_access_token |->
                           Shown(businesses[FindBusiness(businesses, id)].access_token # Absent)])
    /\ UNCHANGED <<businesses, keyCount, procs>>
    /\ TenantFrame

\* PUT /:businessId/app-secret
PutAppSecret(id, app_secret) ==
    /\ request' = TenantRequest("PUT", "/:businessId/app-secret", id)
    /\ IF app_secret = Absent
       THEN /\ http' = ResJson(400, [error |-> "App secret required",
                                     message |-> "app_secret field is required"])
            /\ UNCHANGED businesses
       ELSE IF FindBusiness(businesses, id) = 0
       THEN /\ http' = ResJson(404, NotFound("Business with ID " \o id \o " not found"))
            /\ UNCHANGED businesses
       ELSE /\ businesses' =
                 [businesses EXCEPT ![FindBusiness(businesses, id)].app_secret = app_secret]
            /\ http' = ResJson(200, [success |-> "true",
                                     message |-> "App secret updated successfully",
                                     id |-> id, has_app_secret |-> "true"])
    /\ UNCHANGED <<keyCount, procs>>
    /\ TenantFrame

\* POST /:businessId/regenerate-keys
PostRegenerateKeys(id) ==
    /\ request' = TenantRequest("POST", "/:businessId/regenerate-keys", id)
    /\ IF FindBusiness(businesses, id) = 0
       THEN /\ http' = ResJson(500, [error |-> "Failed to regenerate keys",
                                     message |-> "Business not found"])
            /\ UNCHANGED <<businesses, keyCount>>
       ELSE /\ keyCount' = keyCount + 1
            /\ businesses' =
                 [businesses EXCEPT ![FindBusiness(businesses, id)] =
                     regenerateBusinessKeys(@, generateKeyPair(keyCount + 1))]
            /\ http' = ResJson(200, [success |-> "true",
                                     message |-> "Keys regenerated successfully",
                                     id |-> id, public_key_uploaded |-> "false"])
    /\ UNCHANGED procs
    /\ TenantFrame

\* POST /:businessId/upload-public-key, up to the call of the platform.
PostUploadPublicKey(id, access_token) ==
    /\ Len(procs) < MaxUploads
    /\ request' = TenantRequest("POST", "/:businessId/upload-public-key", id)
    /\ IF access_token = Absent
       THEN /\ http' = ResJson(400, [error |-> "Missing required fields",
                                     message |-> "phone_number_id and access_token are required"])
            /\ UNCHANGED procs
       ELSE IF FindBusiness(businesses, id) = 0
       THEN /\ http' = ResJson(500, [error |-> "Failed to upload public key",
                                     message |-> "Business not found"])
            /\ UNCHANGED procs
       ELSE /\ procs' = Append(procs,
                   [businessId |-> id, access_token |-> access_token,
                    public_key |-> businesses[FindBusiness(businesses, id)].public_key])
            /\ UNCHANGED http
    /\ UNCHANGED <<businesses, keyCount>>
    /\ TenantFrame

\* The platform answers the upload; on success the tenant is marked.
UploadAnswered(accepted) ==
    /\ procs # << >>
    /\ procs' = Tail(procs)
    /\ platform' = IF accepted
                   THEN Head(procs).businessId :> Head(procs).public_key @@ platform
                   ELSE platform
    /\ IF accepted
       THEN /\ businesses' =
                 IF FindBusiness(businesses, Head(procs).businessId) = 0 THEN businesses
                 ELSE [businesses EXCEPT
                         ![FindBusiness(businesses, Head(procs).businessId)] =
                            [@ EXCEPT !.public_key_uploaded = TRUE,
                                      !.public_key_uploaded_at = << now >>,
                                      !.access_token = Head(procs).access_token]]
            /\ http' = ResJson(200, [success |-> "true",
                                     message |-> "Public key uploaded successfully"])
       ELSE /\ UNCHANGED businesses
            /\ http' = ResJson(500, [error |-> "Failed to upload public key",
                                     message |-> "Request failed with status code 400"])
    /\ UNCHANGED <<sessions, responses, flowData, now, uuidCount, nreq, last, attempts,
                   request, codec, fetching, keyCount>>

NextTenants ==
    \/ \E businessData \in BusinessData : PostBusiness(businessData)
    \/ \E id \in TenantIds : GetBusiness(id)
    \/ \E id \in TenantIds : GetBusinessWithCredentials(id)
    \/ \E id \in TenantIds, whatsappConfig \in WhatsAppConfigs, omitUndefined \in BOOLEAN :
          PutWhatsAppConfig(id, whatsappConfig, omitUndefined)
    \/ \E id \in TenantIds : GetAppSecret(id)
    \/ \E id \in TenantIds, app_secret \in AppSecrets : PutAppSecret(id, app_secret)
    \/ \E id \in TenantIds : PostRegenerateKeys(id)
    \/ \E id \in TenantIds, access_token \in AccessTokens : PostUploadPublicKey(id, access_token)
    \/ \E accepted \in BOOLEAN : UploadAnswered(accepted)

SpecTenants == InitTenants /\ [][NextTenants]_vars

(***************************************************************************)
(* Requests that carry some of the three envelope fields, none, or all.    *)
(***************************************************************************)
MaxShapeRequests == 2

\* Which of the envelope fields a body carries (a field that is an empty
\* string counts as missing).
Shapes ==
    { [encrypted_flow_data |-> d, encrypted_aes_key |-> k, initial_vector |-> v] :
        d \in BOOLEAN, k \in BOOLEAN, v \in BOOLEAN }

ShapeBodies ==
    { Body("INIT", "FORM", "flowA", "s1", P1),
      Body("DATA_EXCHANGE", "FORM", Absent, "s1", P1),
      Body("BACK", "FORM", Absent, "s1", NoPayload),
      Body("ping", Absent, Absent, Absent, NoPayload),
      Body(Absent, "FORM", Absent, "s1", P1),
      Body(Absent, Absent, Absent, Absent, NoPayload) }

ShapeRequests ==
    { [has |-> h, env |-> Envelope("k1", TRUE, "secret1", Ping), body |-> b,
       business_id |-> Absent] : h \in Shapes, b \in ShapeBodies }

InitShape ==
    /\ InitStores
    /\ codec = NoCodec
    /\ businesses \in { << >>, << Business("b1", "k1", "secret1", "token1", TRUE) >> }
    /\ flowData = << >>

NextShape ==
    \E req \in ShapeRequests, fetched \in FetchOutcomes :
        nreq < MaxShapeRequests /\ DataEndpoint(req, fetched) /\ UNCHANGED fetching

SpecShape == InitShape /\ [][NextShape]_vars

(***************************************************************************)
(* Signature validation on header values.  A header value is a sequence    *)
(* of pieces: the text "sha256=", the halves of a hex digest, other text.  *)
(***************************************************************************)
MaxHeaderLen == 3

RawBodies == {"body1", "body2"}

\* crypto.createHmac("sha256", appSecret).update(rawBody).digest("hex")
HmacHex(rawBody, appSecret) ==
    << "hmac(" \o rawBody \o "," \o appSecret \o ")/hi",
       "hmac(" \o rawBody \o "," \o appSecret \o ")/lo" >>

HeaderPieces ==
    {"sha256=", "00"}
    \cup { HmacHex("body1", k)[i] : k \in {"secret1", "secret2"}, i \in 1..2 }

\* present = FALSE is a request without the header (signature undefined).
SignatureHeaders ==
    { [present |-> FALSE, value |-> << >>] }
    \cup { [present |-> TRUE, value |-> v] :
             v \in UNION { [1..n -> HeaderPieces] : n \in 0..MaxHeaderLen } }

\* signatureHeader.replace("sha256=", ""): the first occurrence is removed.
ReplaceFirst(value) ==
    IF \E i \in DOMAIN value : value[i] = "sha256="
    THEN LET i == CHOOSE j \in DOMAIN value :
                    value[j] = "sha256=" /\ \A h \in 1..(j - 1) : value[h] # "sha256="
         IN SubSeq(value, 1, i - 1) \o SubSeq(value, i + 1, Len(value))
    ELSE value

\* crypto.timingSafeEqual: throws on buffers of different lengths.
timingSafeEqual(a, b) ==
    [threw |-> Len(a) # Len(b), equal |-> a = b]

\* validateSignature on the header value itself; raised tells whether an
\* exception left the function.
validateSignatureHeader(rawBody, signature, appSecret) ==
    IF appSecret = Absent THEN [result |-> TRUE, raised |-> FALSE]
    ELSE IF ~signature.present THEN [result |-> FALSE, raised |-> FALSE]
    ELSE IF timingSafeEqual(HmacHex(rawBody, appSecret), ReplaceFirst(signature.value)).threw
    THEN [result |-> FALSE, raised |-> FALSE]
    ELSE [result |-> timingSafeEqual(HmacHex(rawBody, appSecret),
                                     ReplaceFirst(signature.value)).equal,
          raised |-> FALSE]

InitSignature ==
    /\ InitStores
    /\ businesses = << >>
    /\ flowData = << >>
    /\ codec \in [stage : {"signed"}, rawBody : RawBodies, signature : SignatureHeaders,
                  appSecret : {Absent, "secret1"}]

Validate ==
    /\ codec.stage = "signed"
    /\ codec' = [stage |-> "validated", rawBody |-> codec.rawBody,
                 signature |-> codec.signature, appSecret |-> codec.appSecret,
                 out |-> validateSignatureHeader(codec.rawBody, codec.signature,
                                                 codec.appSecret)]
    /\ UNCHANGED <<businesses, sessions, responses, flowData, now, uuidCount, nreq,
                   last, attempts, http, request, fetching, procs, keyCount, platform>>

NextSignature == Validate

SpecSignature == InitSignature /\ [][NextSignature]_vars

(***************************************************************************)
(* The default transform on source results of every shape.                 *)
(***************************************************************************)
MaxItems == 2

\* Items of a source result: with id and title, with their alternatives,
\* with none of the title fields, with nothing the transform reads.
SourceItems ==
    { [id |-> "US", title |-> "United States", label |-> "USA"],
      [value |-> "UK", label |-> "United Kingdom", name |-> "Britain"],
      [id |-> "FR", value |-> "fr", name |-> "France", text |-> "Republique"],
      [text |-> "Spain"],
      [code |-> "DE"] }

ItemLists == UNION { [1..n -> SourceItems] : n \in 0..MaxItems }

\* JSON documents the source may answer with.
SourceResults ==
    { [kind |-> "array", items |-> l] : l \in ItemLists }
    \cup { [kind |-> "object", hasData |-> TRUE, items |-> l] : l \in ItemLists }
    \cup { [kind |-> "object", hasData |-> FALSE, items |-> << >>],
           [kind |-> "number"],
           [kind |-> "null"] }

InitTransform ==
    /\ InitStores
    /\ businesses = << >>
    /\ flowData = << >>
    /\ codec \in [stage : {"fetched"}, apiData : SourceResults]

Transform ==
    /\ codec.stage = "fetched"
    /\ codec' = [stage |-> "transformed", apiData |-> codec.apiData,
                 threw |-> transformThrows(codec.apiData),
                 options |-> IF transformThrows(codec.apiData) THEN << >>
                             ELSE transformApiDataToDropdownOptions(codec.apiData)]
    /\ UNCHANGED <<businesses, sessions, responses, flowData, now, uuidCount, nreq,
                   last, attempts, http, request, fetching, procs, keyCount, platform>>

NextTransform == Transform

SpecTransform == InitTransform /\ [][NextTransform]_vars

(***************************************************************************)
(* Store writes that fail.  failAt = k makes the k-th write of the action  *)
(* fail (the document is not written and the driver's error is thrown);    *)
(* an action with fewer writes runs as usual.                              *)
(***************************************************************************)
MaxFailRequests == 2

\* The most writes to the session and answer stores one action performs.
MaxWrites == 3

\* An action with fewer writes than failAt is not disturbed.
FailPoints == 1..(MaxWrites + 1)

FailBodies ==
    { Body("INIT", "FORM", "flowA", "s1", P1),
      Body("BACK", "FORM", Absent, "s1", NoPayload),
      Body("DATA_EXCHANGE", "FORM", Absent, "s1", P1),
      Body("DATA_EXCHANGE", "FORM", Absent, "s1", P2),
      Body("COMPLETE", "FORM", Absent, "s1", P2),
      Body("COMPLETE", "FORM", Absent, "s1", NoPayload) }

\* Documents saveUserResponses has saved when its save number failAt fails.
SavedBefore(rs, b, t, failAt) ==
    SubSeq(saveUserResponses(rs, b.session_id, b.screen, b.payload, t),
           1, Len(rs) + failAt - 1)

\* Number of flowResponse.save() calls of the action.
Saves(b) ==
    IF b.action \in {"DATA_EXCHANGE", "COMPLETE"} /\ b.payload.present
    THEN Len(b.payload.entries) ELSE 0

\* processFlowAction with the failAt-th write to a store failing.
processFlowActionFailing(S, b, fetched, t, failAt) ==
    CASE b.action \in {"DATA_EXCHANGE", "COMPLETE"} /\ failAt <= Saves(b) ->
           Threw([S EXCEPT !.responses = SavedBefore(@, b, t, failAt)], "store write failed")
      [] b.action = "COMPLETE" /\ failAt = Saves(b) + 1 ->
           Threw([S EXCEPT !.responses =
                     IF b.payload.present
                     THEN saveUserResponses(@, b.session_id, b.screen, b.payload, t)
                     ELSE @],
                 "store write failed")
      [] b.action = "INIT" /\ failAt = 1 -> Threw(S, "store write failed")
      [] b.action = "BACK" /\ failAt = 1 /\ getSession(S.sessions, b.session_id) ->
           Threw(S, "store write failed")
      [] OTHER -> processFlowAction(S, b, fetched, t)

\* A request during which a store write may fail.
FailingRequest(req, fetched, failAt) ==
    /\ nreq < MaxFailRequests
    /\ nreq' = nreq + 1
    /\ request' = req
    /\ AfterAction(req, processFlowActionFailing(Stores, req.body, fetched, now, failAt))
    /\ attempts' = << >>
    /\ UNCHANGED <<businesses, now, codec, fetching, procs, keyCount, platform>>

NextFail ==
    \E b \in FailBodies, fetched \in FetchOutcomes, failAt \in FailPoints :
        FailingRequest(PlainRequest(b), fetched, failAt)

SpecFail == Init /\ [][NextFail]_vars

(***************************************************************************)
(* The dropdown-data update endpoint followed by flow requests.            *)
(***************************************************************************)
MaxDropdownRequests == 3

DropdownOptions ==
    { << [id |-> "IN", title |-> "India"] >>,
      << [id |-> "US", title |-> "United States"], [id |-> "UK", title |-> "United Kingdom"] >> }

\* JSON.stringify(apiConfig) of the body's apiConfig, "" when it has none.
DropdownApiConfigs == { Absent, "{\"endpoint\":\"https://source.example/options\"}" }

DropdownBodies ==
    { Body("INIT", "DETAILS", "flowA", "s1", NoPayload),
      Body("BACK", "DETAILS", Absent, "s1", NoPayload),
      Body("DATA_EXCHANGE", "DETAILS", Absent, "s1", P1),
      Body("DATA_EXCHANGE", "FORM", Absent, "s1", P1) }

\* FlowData.findOneAndUpdate({business_id, flow_id, screen_id,
\* field_name: "dropdown_options"}, {...}, {upsert: true})
UpsertDropdownOptions(docs, businessId, flowId, screenId, options, apiConfig, t) ==
    IF \E i \in DOMAIN docs :
          /\ docs[i].business_id = businessId /\ docs[i].flow_id = flowId
          /\ docs[i].screen_id = screenId /\ docs[i].field_name = "dropdown_options"
    THEN [docs EXCEPT
            ![CHOOSE i \in DOMAIN docs :
                /\ docs[i].business_id = businessId /\ docs[i].flow_id = flowId
                /\ docs[i].screen_id = screenId /\ docs[i].field_name = "dropdown_options"] =
                [@ EXCEPT !.field_value = JSONstringifyOptions(options),
                          !.api_config = apiConfig,
                          !.updated_at = t]]
    ELSE Append(docs, [business_id |-> businessId, flow_id |-> flowId,
                       screen_id |-> screenId, field_name |-> "dropdown_options",
                       field_value |-> JSONstringifyOptions(options),
                       api_config |-> apiConfig,
                       created_at |-> t, updated_at |-> t])

\* POST /dropdown-data/:businessId/:flowId/:screenId
PostDropdownData(screenId, options, apiConfig) ==
    /\ nreq < MaxDropdownRequests
    /\ nreq' = nreq + 1
    /\ flowData' = UpsertDropdownOptions(flowData, "b1", "flowA", screenId, options,
                                         apiConfig, now)
    /\ http' = ResJson(200, [success |-> TRUE,
                             message |-> "Dropdown data saved successfully"])
    /\ request' = PlainRequest(NoBody)
    /\ last' = NoCall
    /\ attempts' = << >>
    /\ UNCHANGED <<businesses, sessions, responses, now, uuidCount, codec, fetching, procs,
                   keyCount, platform>>

\* A flow request on the data endpoint.
DropdownFlowRequest(b, fetched) ==
    /\ nreq < MaxDropdownRequests
    /\ DataEndpoint(PlainRequest(b), fetched)
    /\ UNCHANGED fetching

NextDropdown ==
    \/ \E options \in DropdownOptions, apiConfig \in DropdownApiConfigs :
          PostDropdownData("DETAILS", options, apiConfig)
    \/ \E b \in DropdownBodies, fetched \in FetchOutcomes : DropdownFlowRequest(b, fetched)

InitDropdown ==
    /\ InitStores
    /\ codec = NoCodec
    /\ businesses = << >>
    /\ flowData = << >>

SpecDropdown == InitDropdown /\ [][NextDropdown]_vars

(***************************************************************************)
(* Properties                                                              *)
(***************************************************************************)
\* A step of the data endpoint in which processFlowAction was called.
Call == nreq' = nreq + 1 /\ last'.called

FlowActions == {"INIT", "BACK", "DATA_EXCHANGE", "COMPLETE"}

KnownActions == FlowActions \cup {"ping"}

FirstScreen == "FORM"

\* C1: whenever some candidate tenant decrypted an encrypted request and the
\* flow action succeeded, the HTTP response is plain text and its body is the
\* base64 string encryptResponse returned for that request.
C1_BodyIsEncryptedResponse ==
    \A i \in DOMAIN attempts :
        ~attempts[i].threw =>
            /\ http.contentType = "text/plain"
            /\ http.body = [kind |-> "text", value |-> attempts[i].returned]

\* C2: every successful response to INIT, BACK, DATA_EXCHANGE and COMPLETE has
\* a version tag, a screen identifier, a data object and a session identifier,
\* and BACK, DATA_EXCHANGE and COMPLETE echo the request's session identifier.
C2_ResponseEnvelope ==
    (last.called /\ ~last.threw /\ last.body.action \in FlowActions) =>
        /\ {"version", "screen", "data", "session_id"} \subseteq DOMAIN last.result
        /\ last.body.action # "INIT" => last.result.session_id = last.body.session_id

\* C3: an INIT whose session identifier matches no stored session adds exactly
\* one session record, changes no other session, and returns the first screen.
C3_InitCreatesOneSession ==
    [][ (Call /\ last'.body.action = "INIT" /\ ~last'.found /\ ~last'.threw) =>
            /\ Cardinality(DOMAIN sessions') = Cardinality(DOMAIN sessions) + 1
            /\ \A id \in DOMAIN sessions :
                  id \in DOMAIN sessions' /\ sessions'[id] = sessions[id]
            /\ last'.result.screen = FirstScreen ]_vars

C3_Witness ==
    /\ last.called /\ last.body.action = "INIT" /\ ~last.found /\ ~last.threw
    /\ last.body.screen = "DETAILS"
    /\ last.result.screen = FirstScreen
    /\ Cardinality(DOMAIN sessions) = 2

\* C4: an INIT without a session identifier answers with the non-empty
\* identifier of the session record it has just created.
C4_InitReturnsGeneratedId ==
    (last.called /\ ~last.threw /\ last.body.action = "INIT"
        /\ last.body.session_id = Absent) =>
        /\ "session_id" \in DOMAIN last.result
        /\ last.result.session_id # Absent
        /\ last.result.session_id = Uuid(uuidCount)
        /\ last.result.session_id \in DOMAIN sessions

\* C5: a DATA_EXCHANGE on an existing session for which routing yields no
\* next screen returns the completion screen and leaves the session's stored
\* current screen at COMPLETED.
C5_DataExchangeCompletes ==
    (last.called /\ ~last.threw /\ last.body.action = "DATA_EXCHANGE"
        /\ last.found /\ determineNextScreen(last.body) = Absent) =>
        /\ last.result.screen = "SUCCESS"
        /\ sessions[last.body.session_id].current_screen = "COMPLETED"

\* C6: a BACK whose session identifier matches no stored session fails, with
\* the session-not-found error when an identifier was given, and writes
\* nothing: session store, answer store and screen-data cache are unchanged.
C6_BackMissingSession ==
    [][ (Call /\ last'.body.action = "BACK" /\ ~last'.found) =>
            /\ last'.threw
            /\ last'.body.session_id # Absent => last'.error = "Session not found"
            /\ UNCHANGED <<sessions, responses, flowData>> ]_vars

C6_Witness ==
    /\ last.called /\ last.body.action = "BACK" /\ ~last.found
    /\ last.body.session_id = "u1"
    /\ last.threw /\ last.error = "Session not found"
    /\ "s1" \in DOMAIN sessions

\* C7: a DATA_EXCHANGE or COMPLETE whose non-empty session identifier matches
\* no stored session fails with the session-not-found error and appends no
\* answer record.
C7_MissingSessionFails ==
    (last.called /\ last.body.action \in {"DATA_EXCHANGE", "COMPLETE"}
        /\ last.body.session_id # Absent /\ ~last.found) =>
        /\ last.threw
        /\ last.error = "Session not found"
        /\ Len(responses) = last.answersBefore

\* C8: an action tag other than INIT, BACK, DATA_EXCHANGE, COMPLETE and ping
\* makes processFlowAction fail with the unknown-action error and leaves the
\* session store, the answer store and the screen-data cache unchanged.
C8_UnknownAction ==
    [][ (Call /\ last'.body.action \notin KnownActions) =>
            /\ last'.threw
            /\ last'.error = "Unknown action: " \o last'.body.action
            /\ UNCHANGED <<sessions, responses, flowData>> ]_vars

C8_Witness ==
    /\ last.called /\ last.body.action = "BOGUS"
    /\ last.threw /\ last.error = "Unknown action: BOGUS"
    /\ last.found
    /\ http.body.value.message = "Unknown action: BOGUS"

\* C9: on the unencrypted path a request that fails with session-not-found or
\* unknown-action is answered with a 4xx status, never a 5xx status.
C9_CallerErrorIs4xx ==
    (last.called /\ last.threw /\ attempts = << >>
        /\ (last.error = "Session not found"
            \/ last.error = "Unknown action: " \o last.body.action)) =>
        http.status \in 400..499

\* C10: the answer store is append-only: every step leaves the records
\* already stored in place and unaltered, and each successful DATA_EXCHANGE or
\* COMPLETE carrying a field adds one more record for that field and session.
AnswersFor(rs, sid, f) ==
    { i \in DOMAIN rs : rs[i].session_id = sid /\ rs[i].field_name = f }

C10_AppendOnly ==
    [][ /\ Len(responses') >= Len(responses)
        /\ SubSeq(responses', 1, Len(responses)) = responses
        /\ (Call /\ ~last'.threw /\ last'.body.action \in {"DATA_EXCHANGE", "COMPLETE"}) =>
              \A i \in DOMAIN last'.body.payload.entries :
                 Cardinality(AnswersFor(responses', last'.body.session_id,
                                        last'.body.payload.entries[i][1]))
                   = Cardinality(AnswersFor(responses, last'.body.session_id,
                                            last'.body.payload.entries[i][1])) + 1 ]_vars

C10_Witness ==
    /\ "s1" \in DOMAIN sessions
    /\ Len(responses) = 2
    /\ responses[1].session_id = "s1" /\ responses[2].session_id = "s1"
    /\ responses[1].field_name = "country" /\ responses[2].field_name = "country"
    /\ responses[1].field_value = "\"US\""
    /\ responses[2].field_value = "\"US\""

\* The answer records the most recent request added to the answer store.
Added == SubSeq(responses, last.answersBefore + 1, Len(responses))

\* The most recent request was a successful DATA_EXCHANGE carrying a payload.
ExchangedPayload ==
    /\ last.called /\ ~last.threw /\ last.body.action = "DATA_EXCHANGE"
    /\ last.body.payload.present

\* C11 as stated: a successful DATA_EXCHANGE with a payload of k fields adds
\* exactly k answer records, one per field in order, each with the request's
\* session identifier, its screen, the field name and, as stored value, the
\* value submitted for that field; and the response screen is SUCCESS.
C11_StoresSubmittedValue ==
    ExchangedPayload =>
        /\ Len(Added) = Len(last.body.payload.entries)
        /\ \A i \in DOMAIN Added :
              /\ Added[i].session_id = last.body.session_id
              /\ Added[i].screen_id = last.body.screen
              /\ Added[i].field_name = last.body.payload.entries[i][1]
              /\ Added[i].field_value = last.body.payload.entries[i][2]
        /\ last.result.screen = "SUCCESS"

\* C11 amended: a successful DATA_EXCHANGE with a payload of k fields adds
\* exactly k answer records, one per field in order, each with the request's
\* session identifier, its screen, the field name and, as stored value, the
\* JSON text of the submitted value (the string US is stored as "US", the
\* quotes being part of the stored value); the response screen is SUCCESS.
C11_StoresJsonOfValue ==
    ExchangedPayload =>
        /\ Len(Added) = Len(last.body.payload.entries)
        /\ \A i \in DOMAIN Added :
              /\ Added[i].session_id = last.body.session_id
              /\ Added[i].screen_id = last.body.screen
              /\ Added[i].field_name = last.body.payload.entries[i][1]
              /\ Added[i].field_value = "\"" \o last.body.payload.entries[i][2] \o "\""
              /\ Len(Added[i].field_value) = Len(last.body.payload.entries[i][2]) + 2
        /\ last.result.screen = "SUCCESS"

C11_Witness ==
    /\ ExchangedPayload /\ last.found
    /\ last.body.session_id = "s1" /\ last.body.payload = P2
    /\ Len(Added) = 2
    /\ Added[1].field_name = "country" /\ Added[1].field_value = "\"UK\""
    /\ Added[2].field_name = "city" /\ Added[2].field_value = "\"NY\""
    /\ last.result.screen = "SUCCESS"

\* The stored tenant with identifier id.
Tenant(id) ==
    businesses[CHOOSE j \in DOMAIN businesses : businesses[j].id = id]

\* Every outcome a call of decryptRequest can have.
DecryptOutcomes == {"ok", "421", "error"}

\* C12: when a request was signed with a secret other than the one
\* configured for a tenant, signature verification with that tenant fails
\* and decryptRequest is not attempted for the request with that tenant.
C12_MismatchStopsDecryption ==
    \A i \in DOMAIN attempts :
        (/\ attempts[i].signedWith # Absent
         /\ Tenant(attempts[i].business).app_secret # Absent
         /\ Tenant(attempts[i].business).app_secret # attempts[i].signedWith) =>
            /\ ~attempts[i].sigValid
            /\ attempts[i].decrypt \notin DecryptOutcomes

\* The most recent request was an encrypted one.
EncryptedRequest == nreq > 0 /\ IsEncrypted(request)

\* The stored tenant with identifier id holds the private key the request's
\* symmetric key was wrapped for.
HoldsKey(id) == Tenant(id).private_key = request.env.wrappedFor

\* C13: an intact encrypted request wrapped under the public key of a stored
\* tenant that holds the private key is decrypted with that tenant's key,
\* whatever the tenant's place in the collection and whatever the
\* public_key_uploaded flags, and is answered with status 200 when its flow
\* action succeeds.
C13_ResolvesKeyHolder ==
    (/\ EncryptedRequest /\ request.env.tagValid
     /\ \E j \in DOMAIN businesses :
           businesses[j].private_key = request.env.wrappedFor) =>
        \E i \in DOMAIN attempts :
            /\ HoldsKey(attempts[i].business)
            /\ attempts[i].decrypt = "ok"
            /\ ~attempts[i].threw => http.status = 200

\* C14: an encrypted request wrapped under a key that no candidate tenant
\* holds, the empty candidate list included, is answered with status 421.
C14_UnknownKeyIs421 ==
    (/\ EncryptedRequest
     /\ \A j \in DOMAIN Candidates(businesses) :
           Candidates(businesses)[j].private_key # request.env.wrappedFor) =>
        http.status = 421

\* C15: an encrypted request is answered 421 only when no candidate's key
\* decrypted it: once some candidate decrypted the request, a failure of the
\* flow action is answered with another 4xx status or 500.
C15_421OnlyWithoutDecryption ==
    (EncryptedRequest /\ \E i \in DOMAIN attempts : attempts[i].decrypt = "ok") =>
        /\ http.status # 421
        /\ (\A i \in DOMAIN attempts : attempts[i].threw) =>
              http.status \in (400..500) \ {421}

\* C16: when a candidate's key unwraps the symmetric key and the payload's
\* authentication tag does not verify, no further candidate is tried and the
\* request is not answered with the stale-key status 421.
C16_TagFailureIsTerminal ==
    (EncryptedRequest /\ ~request.env.tagValid) =>
        \A i \in DOMAIN attempts :
            HoldsKey(attempts[i].business) =>
                /\ i = Len(attempts)
                /\ http.status # 421

\* C17: every tenant the resolver attempts decryption with has a private key
\* and a signing secret.
C17_CandidatesHaveBoth ==
    EncryptedRequest =>
        \A i \in DOMAIN attempts :
            /\ Has(Tenant(attempts[i].business).private_key)
            /\ Has(Tenant(attempts[i].business).app_secret)

\* C18: for an encrypted request that names a tenant (header x-business-id
\* or body business_id), decryption is attempted with that tenant only.
C18_ExplicitTenantOnly ==
    (EncryptedRequest /\ request.business_id # Absent) =>
        \A i \in DOMAIN attempts : attempts[i].business = request.business_id

\* C19: the IV encryptResponse uses has the length of the request IV, each
\* of its bytes is 255 minus the corresponding request byte, and it is never
\* the request IV itself.
C19_ResponseIvIsComplement ==
    codec.stage \in {"encrypted", "decrypted"} =>
        /\ Len(codec.out.iv) = Len(codec.V)
        /\ \A i \in 1..Len(codec.V) :
              /\ codec.out.iv[i] \in Bytes
              /\ codec.out.iv[i] + codec.V[i] = 255
        /\ codec.out.iv # codec.V

C19_Witness ==
    /\ codec.stage = "encrypted"
    /\ codec.V = <<0, 127, 255>>
    /\ codec.out.iv = <<255, 128, 0>>

\* C20: splitting the tag off the string encryptResponse(P, K, V) returned
\* and decrypting the rest with K and the complement of V succeeds and
\* yields P.
C20_RoundTrip ==
    codec.stage = "decrypted" =>
        /\ codec.back.ok
        /\ codec.back.decryptedBody = codec.P

C20_Witness ==
    /\ codec.stage = "decrypted"
    /\ codec.P = [data |-> [status |-> "active"]] /\ codec.K = "aes2" /\ codec.V = <<7>>
    /\ codec.back = [ok |-> TRUE, decryptedBody |-> [data |-> [status |-> "active"]]]

\* The external source did not deliver an option list: a non-OK status, an
\* exception while fetching, or a document the transformation throws on.
RefreshFailed(outcome) ==
    \/ outcome.kind \in {"notok", "throw"}
    \/ outcome.kind = "ok" /\ transformThrows(outcome.data)

\* The handler of a request that reached the fetch has run to its end.
Refreshed == fetching.state = "done"

\* C21: a flow action whose external refresh failed still succeeds: the
\* handler returns its result and the request is answered with status 200.
C21_SourceFailureNeverFails ==
    (Refreshed /\ RefreshFailed(fetching.outcome)) =>
        /\ last.called /\ last.body = fetching.req.body
        /\ ~last.threw
        /\ http.status = 200
        /\ http.body.value = last.result

C21_Witness ==
    /\ Refreshed /\ fetching.outcome = Untransformable
    /\ fetching.req.body.action = "DATA_EXCHANGE"
    /\ ~last.threw /\ last.result.screen = "SUCCESS"
    /\ http.status = 200

Screens == {"FORM", "DETAILS"}

\* The cache entry of a screen: the stored JSON text, if there is an entry.
CacheEntry(docs, screenId) ==
    IF FindOneFlowData(docs, screenId, "data_source") = 0
    THEN [cached |-> FALSE]
    ELSE [cached |-> TRUE,
          field_value |-> docs[FindOneFlowData(docs, screenId, "data_source")].field_value]

\* What getScreenData returns for an option list.
ScreenDataOf(options) ==
    IF options = <<>> THEN EmptyObject ELSE [data_source |-> options]

C23_RefreshTerminates ==
    (fetching.state = "waiting") ~> (fetching.state = "done")

\* C24: the ping action returns the fixed liveness payload and leaves the
\* session store, the answer store and the screen-data cache unchanged.
C24_PingIsPure ==
    [][ (Call /\ last'.body.action = "ping") =>
            /\ ~last'.threw
            /\ last'.result = [data |-> [status |-> "active"]]
            /\ UNCHANGED <<sessions, responses, flowData>> ]_vars

C24_Witness ==
    /\ last.called /\ last.body.action = "ping" /\ ~last.threw
    /\ http = ResJson(200, [data |-> [status |-> "active"]])
    /\ "s1" \in DOMAIN sessions
    /\ Len(responses) = 1

\* C25: a BACK, DATA_EXCHANGE or COMPLETE naming a session that is still
\* stored but whose expiry timestamp has passed fails and changes neither
\* the session store nor the answer store.
C25_ExpiredSessionIsAbsent ==
    [][ (/\ Call /\ last'.body.action \in {"BACK", "DATA_EXCHANGE", "COMPLETE"}
         /\ last'.body.session_id \in DOMAIN sessions
         /\ Expired(sessions[last'.body.session_id], now)) =>
            /\ last'.threw
            /\ UNCHANGED <<sessions, responses>> ]_vars

\* The field names of a payload.
PayloadFields(payload) ==
    { payload.entries[i][1] : i \in DOMAIN payload.entries }

\* JSON.parse of a stored session_data text: the payload it was made from.
JSONparseObject(text) ==
    CHOOSE payload \in {NoPayload, P1, P2} : JSONstringifyObject(payload) = text

\* C26: the answer blob of a session accumulates: after every successful
\* action on a stored session the blob has the fields it had before and the
\* fields of the payload the action submitted.
C26_BlobAccumulates ==
    [][ (/\ Call /\ ~last'.threw /\ last'.body.action \in FlowActions
         /\ last'.body.session_id \in DOMAIN sessions) =>
            (PayloadFields(JSONparseObject(sessions[last'.body.session_id].session_data))
               \cup PayloadFields(last'.body.payload))
              \subseteq PayloadFields(JSONparseObject(
                                        sessions'[last'.body.session_id].session_data)) ]_vars

\* What a race is compared on: the session records and the two replies.
RaceView(ss, outA, outB) == [sessions |-> ss, outA |-> outA, outB |-> outB]

\* The second action of a serial order, handled after the first one's call.
SerialEnd(callA, callB, aFirst) ==
    IF aFirst THEN RaceView(callB.S.sessions, Outcome(callA), Outcome(callB))
    ELSE RaceView(callB.S.sessions, Outcome(callB), Outcome(callA))

SerialSecond(callA, b, fetched, t, aFirst) ==
    SerialEnd(callA, processFlowAction(callA.S, b, fetched, t), aFirst)

\* The two serial orders of the actions of processes p and q, started in
\* stores S0; the external source answers each refresh as it will.
SerialOrders(S0, p, q, t) ==
    { SerialSecond(processFlowAction(S0, p.body, f1, t), q.body, f2, t, TRUE) :
        f1 \in RaceFetchOutcomes, f2 \in RaceFetchOutcomes }
    \cup
    { SerialSecond(processFlowAction(S0, q.body, f1, t), p.body, f2, t, FALSE) :
        f1 \in RaceFetchOutcomes, f2 \in RaceFetchOutcomes }

BothDone == procs.run[1].pc = "done" /\ procs.run[2].pc = "done"

\* C27: when two actions for one session have both been handled, under any
\* interleaving of their store operations, the session record and the two
\* replies are those of one of the two serial orders of the actions.
C27_RaceIsSerializable ==
    BothDone =>
        RaceView(sessions, procs.run[1].out, procs.run[2].out)
            \in SerialOrders(procs.start, procs.run[1], procs.run[2], now)

\* C28: every tenant has a private key and a shared secret, or neither.
C28_KeyAndSecretTogether ==
    \A j \in DOMAIN businesses :
        (businesses[j].private_key # Absent) <=> (businesses[j].app_secret # Absent)

\* The step is a key rotation that succeeded.
RotationStep ==
    /\ nreq' = nreq + 1
    /\ request'.path = "/:businessId/regenerate-keys"
    /\ http'.status = 200

\* The response shows a tenant's document with its credentials.
ShowsCredentials(res) ==
    res.status = 200 /\ "private_key" \in DOMAIN res.body.value

\* The tenant is as a rotation from document old leaves it: the pair just
\* generated in place of the old one, and not acknowledged.
Rotated(old, new, pair) ==
    /\ new.private_key = pair.privateKey
    /\ new.public_key = pair.publicKey
    /\ new.private_key # old.private_key
    /\ new.public_key # old.public_key
    /\ ~new.public_key_uploaded
    /\ new.public_key_uploaded_at = NoDate

Secrets ==
    UNION { { businesses[j].private_key, businesses[j].access_token,
              businesses[j].app_secret } : j \in DOMAIN businesses } \ {Absent}

\* C30: no response of a tenant endpoint carries a tenant's private key,
\* access token or shared secret.
C30_NoSecretInResponse ==
    \A f \in DOMAIN http.body.value : http.body.value[f] \notin Secrets

\* C31: a request lacking one of the three envelope fields takes the
\* unencrypted branch: without action or screen it is answered 400 and no
\* store changes, otherwise its body goes to processFlowAction as it is.
C31_PartialEnvelopeIsUnencrypted ==
    [][(nreq' = nreq + 1 /\ \E f \in DOMAIN request'.has : ~request'.has[f]) =>
          IF request'.body.action = Absent \/ request'.body.screen = Absent
          THEN /\ http'.status = 400
               /\ UNCHANGED <<sessions, responses, flowData>>
          ELSE /\ last'.called
               /\ last'.body = request'.body
               /\ http'.contentType = "application/json"
               /\ http'.status \in {200, 500}]_vars

\* A body with two of the three envelope fields and no action was refused.
C31_Witness ==
    /\ nreq > 0
    /\ request.has.encrypted_flow_data
    /\ request.has.encrypted_aes_key
    /\ ~request.has.initial_vector
    /\ request.body.action = Absent
    /\ http.status = 400
    /\ sessions # << >>

\* C32: an unencrypted request with action ping and no screen, session id
\* or payload is answered 200 with the fixed liveness payload.
C32_PingNeedsNothing ==
    [][(nreq' = nreq + 1 /\ ~IsEncrypted(request') /\ request'.body = Ping) =>
          /\ http'.status = 200
          /\ http'.body.value = [data |-> [status |-> "active"]]]_vars

\* C33: validateSignature returns true exactly when no secret is configured
\* or the header is "sha256=" followed by the hex HMAC of the raw body under
\* the secret; otherwise it returns false; it never raises.
C33_SignatureExact ==
    codec.stage = "validated" =>
        /\ ~codec.out.raised
        /\ codec.out.result <=>
              \/ codec.appSecret = Absent
              \/ /\ codec.signature.present
                 /\ codec.signature.value
                       = << "sha256=" >> \o HmacHex(codec.rawBody, codec.appSecret)

HoldsList(apiData) ==
    apiData.kind = "array" \/ (apiData.kind = "object" /\ apiData.hasData)

\* The first of the named fields the item has, none for "".
FirstPresent(item, names) ==
    IF \E i \in DOMAIN names : names[i] \in DOMAIN item
    THEN item[names[CHOOSE i \in DOMAIN names :
                      names[i] \in DOMAIN item
                      /\ \A h \in 1..(i - 1) : names[h] \notin DOMAIN item]]
    ELSE Absent

\* C35: a list of n items (or an object whose data is one) maps to n
\* entries with id and title, id being the item's id, else its value, else
\* option_<index>, title the first present of title, label, name, text;
\* any other result maps to the empty list.
C35_TransformIsUniform ==
    codec.stage = "transformed" =>
        /\ ~codec.threw
        /\ IF HoldsList(codec.apiData)
           THEN /\ Len(codec.options) = Len(codec.apiData.items)
                /\ \A i \in DOMAIN codec.options :
                      /\ DOMAIN codec.options[i] = {"id", "title"}
                      /\ codec.options[i].id # Absent
                      /\ codec.options[i].title # Absent
                      /\ codec.options[i].id =
                            IF FirstPresent(codec.apiData.items[i], << "id", "value" >>) # Absent
                            THEN FirstPresent(codec.apiData.items[i], << "id", "value" >>)
                            ELSE "option_" \o ToString(i - 1)
                      /\ FirstPresent(codec.apiData.items[i],
                                      << "title", "label", "name", "text" >>) # Absent
                            => codec.options[i].title =
                                  FirstPresent(codec.apiData.items[i],
                                               << "title", "label", "name", "text" >>)
           ELSE codec.options = << >>

\* C36: a session whose current screen is COMPLETED keeps that screen
\* whatever action is handled next.
C36_CompletedIsAbsorbing ==
    [][\A sid \in DOMAIN sessions :
          sessions[sid].current_screen = "COMPLETED" =>
              /\ sid \in DOMAIN sessions'
              /\ sessions'[sid].current_screen = "COMPLETED"]_vars

\* C37: a tenant marked public_key_uploaded has, as the key the platform
\* registered last for it, its current public key.
C37_UploadedKeyIsCurrent ==
    \A j \in DOMAIN businesses :
        businesses[j].public_key_uploaded =>
            /\ businesses[j].id \in DOMAIN platform
            /\ platform[businesses[j].id] = businesses[j].public_key

\* C38: when processFlowAction ends with an error, the session store and
\* the answer store are as they were before the action.
C38_ErrorLeavesStores ==
    [][(nreq' = nreq + 1 /\ last'.called /\ last'.threw) =>
          UNCHANGED <<sessions, responses>>]_vars

\* C39: every answer record carries the flow identifier of the session it
\* belongs to.
C39_AnswerCarriesFlowId ==
    \A i \in DOMAIN responses :
        responses[i].session_id \in DOMAIN sessions =>
            responses[i].flow_id = sessions[responses[i].session_id].flow_id

\* The document the dropdown-data endpoint stored for the screen, 0 for none.
DropdownDoc(docs, screenId) == FindOneFlowData(docs, screenId, "dropdown_options")

\* C40: once the dropdown-data endpoint has stored options for a screen, the
\* next request that resolves that screen's data is served those options (seen
\* in the replies to BACK and DATA_EXCHANGE, whose data carries the resolved
\* screen data), or, when a source was stored with them, calls that source.
C40_StoredOptionsAreServed ==
    [][(/\ nreq' = nreq + 1
        /\ validateFlowRequest(request'.body)
        /\ request'.body.session_id # Absent
        /\ \/ request'.body.action = "DATA_EXCHANGE"
           \/ request'.body.action = "BACK" /\ getSession(sessions, request'.body.session_id)
        /\ DropdownDoc(flowData, request'.body.screen) # 0) =>
          IF flowData[DropdownDoc(flowData, request'.body.screen)].api_config = Absent
          THEN /\ http'.status = 200
               /\ "data_source" \in DOMAIN http'.body.value.data
               /\ JSONstringifyOptions(http'.body.value.data.data_source)
                     = flowData[DropdownDoc(flowData, request'.body.screen)].field_value
          ELSE RefreshTriggered(Stores, request'.body)]_vars
====
